---- MODULE Spec2Model ----
(***************************************************************************)
(* NYCTaxiDataCleaner (src/data/data_cleaner.py): the cleaning pipeline    *)
(* run by process_all over one CSV input.                                  *)
(*                                                                         *)
(* Numbers.  A float cell is a fixed-point integer in units of 1/Scale     *)
(* (0.00001), so rounding to 4 decimals is not the identity.  A timestamp  *)
(* is a number of ticks of 1/TicksPerSecond second (50 microseconds) since *)
(* the epoch of the input; trip_duration_seconds is kept in ticks.  NaN is *)
(* the null of a numeric cell: every comparison with it is false.          *)
(*                                                                         *)
(* Text.  A timestamp cell of the CSV is text: [t, fmt] where fmt says how *)
(* the instant t is written (FmtIso "YYYY-MM-DD HH:MM:SS", FmtAlt another  *)
(* spelling of the same instant that pd.to_datetime accepts, FmtBad text   *)
(* that pd.to_datetime rejects, FmtNull an empty cell).  pd.to_datetime    *)
(* maps text to the instant; to_csv writes an instant back as FmtIso text. *)
(*                                                                         *)
(* The fixed point holds magnitudes below 2^31 / Scale (about 21474); the  *)
(* inputs are chosen so that every derived quotient stays below it.        *)
(*                                                                         *)
(* A row of the DataFrame is [src, cells]: cells maps each column of the   *)
(* frame to its value; src is the position of the row in the input, a      *)
(* history field that no operation reads.                                  *)
(***************************************************************************)
EXTENDS Integers, Sequences, FiniteSets, TLC

(* ---------------------------------------------------------------- bounds *)
MaxLen == 3
MaxRuns == 2
MaxTotal == 3
MaxCsv == 3
MaxBatch == 2
MaxOpen == 2

(* ------------------------------------------------------------- numbers   *)
Quantum == 10000                 \* units of the 4th decimal in 1.0: round(4)
Scale == 10 * Quantum            \* fixed-point units in 1.0
TicksPerSecond == 2 * Quantum    \* timestamp ticks in one second
NaN == 0 - 2000000000

FmtIso == "iso"
FmtAlt == "alt"
FmtBad == "bad"
FmtNull == "null"

Text(t, fmt) == [t |-> t, fmt |-> fmt]
NullText == Text(0, FmtNull)
BadText == Text(0, FmtBad)

Seconds(n) == n * TicksPerSecond
Num(whole, frac) == whole * Scale + frac

Min(a, b) == IF a < b THEN a ELSE b

(* Python dict assignment d[k] = v *)
Put(d, k, v) == (k :> v) @@ d

(* DataFrame column assignment df[c] = values, values[i] being the cell of row i *)
RECURSIVE SetColumn(_, _, _)
SetColumn(rows, c, values) ==
    IF rows = <<>> THEN <<>>
    ELSE <<[Head(rows) EXCEPT !.cells = Put(Head(rows).cells, c, Head(values))]>>
           \o SetColumn(Tail(rows), c, Tail(values))

(* boolean-mask selection df[mask] *)
Select(rows, mask) ==
    LET picked == SelectSeq([i \in 1..Len(rows) |-> i], LAMBDA i : mask[i])
    IN <<>> \o [k \in 1..Len(picked) |-> rows[picked[k]]]

(* to_dict('records') *)
to_dict_reversed(rows, stage) ==
    [i \in 1..Len(rows) |-> [src |-> rows[Len(rows) + 1 - i].src, stage |-> stage,
                             cells |-> rows[Len(rows) + 1 - i].cells]]

to_dict(rows, stage) ==
    [i \in 1..Len(rows) |-> [src |-> rows[i].src, stage |-> stage, cells |-> rows[i].cells]]

(* ------------------------------------------------------------- columns   *)
critical_fields ==
    {"pickup_datetime", "dropoff_datetime", "pickup_longitude", "pickup_latitude",
     "dropoff_longitude", "dropoff_latitude"}

duplicate_cols ==
    {"pickup_datetime", "dropoff_datetime", "pickup_longitude", "pickup_latitude"}

TextColumns == {"pickup_datetime", "dropoff_datetime"}

OptionalColumns == {"passenger_count", "trip_distance", "fare_amount", "tip_amount"}

AllColumns == {"id"} \cup critical_fields \cup OptionalColumns

(* ------------------------------------------------------------- state     *)
VARIABLES
    input_file,        \* the CSV: [readable, columns, rows]
    argsort_ties,      \* what the build's quicksort does with equal keys
    pc,                \* the next method of the process_all chain
    df,                \* self.df: [columns, rows]
    excluded_records,  \* self.excluded_records
    cleaning_stats,    \* self.cleaning_stats
    cleaned_csv,       \* output file of save_cleaned_data
    excluded_json,     \* output file of save_excluded_records
    report_json,       \* output file of generate_cleaning_report
    runs,              \* process_all calls started on this input
    prev_run           \* history: outputs of the previous completed run, and the
                       \* length of excluded_records when this run started

(* the API server (backend/app.py): one request is served at a time              *)
VARIABLES
    request,           \* the request being answered: [endpoint, args, ...]
    sql,               \* the statement get_trips sent to the database
    response,          \* what the view returned: [status, body]
    connections        \* connections the views opened and have not closed

(* the batch loader (scripts/load_data.py) and the database it writes to         *)
VARIABLES
    csv_file,          \* the file at csv_path: [isfile, rows]
    batch_size,        \* argument of load_data
    limit,             \* argument of load_data, None or a number of rows
    database,          \* [committed, view, auto_increment]: the tables as committed,
                       \* as the connection's open transaction sees them, and the
                       \* next location_id
    conn,              \* "none", "open" or "closed"
    line,              \* where load_data is: "start", "for", "final", "except",
                       \* "finally", and how it ended: "returned", "raised", "exit"
    total_seen,        \* rows read from the reader
    batch_params,      \* the trips of the batch being filled
    inserted_trips,    \* the counter load_data prints
    error,             \* the exception travelling, "none" when there is none
    commits            \* history: the batches committed, in order

pipeline_vars == <<input_file, argsort_ties, pc, df, excluded_records, cleaning_stats,
                   cleaned_csv, excluded_json, report_json, runs, prev_run>>
api_vars == <<request, sql, response, connections>>
loader_vars == <<csv_file, batch_size, limit, database, conn, line, total_seen,
                 batch_params, inserted_trips, error, commits>>

vars == <<pipeline_vars, api_vars, loader_vars>>

(* an Optional value: None, or the one value it holds *)
None == {}
Some(v) == {v}
the(optional) == CHOOSE v \in optional : TRUE

(* the tables of the database: trips by trip_id, the vendor ids, locations as    *)
(* [location_id, longitude, latitude]                                            *)
EmptyTables == [trips |-> <<>>, vendors |-> {}, locations |-> {}]

(* the server has no request in hand *)
NoRequest == [endpoint |-> "none"]
NoQuery == [executed |-> FALSE]
NoResponse == [status |-> 0]
ApiIdle ==
    /\ request = NoRequest
    /\ sql = NoQuery
    /\ response = NoResponse
    /\ connections = 0

(* the loader has not been started *)
NoDatabase == [committed |-> EmptyTables, view |-> EmptyTables, auto_increment |-> 1]
LoaderIdle ==
    /\ csv_file = [isfile |-> FALSE, rows |-> <<>>]
    /\ batch_size = 0
    /\ limit = None
    /\ database = NoDatabase
    /\ conn = "none"
    /\ line = "exit"
    /\ total_seen = 0
    /\ batch_params = <<>>
    /\ inserted_trips = 0
    /\ error = "none"
    /\ commits = <<>>

NoFile == [written |-> FALSE]
NoDf == [columns |-> {}, rows |-> <<>>]
EmptyDict == [x \in {} |-> 0]

(* ------------------------------------------------------------- inputs    *)
Base ==
    [id |-> 1,
     pickup_datetime |-> Text(0, FmtIso),
     dropoff_datetime |-> Text(Seconds(600), FmtIso),
     pickup_longitude |-> 0 - Num(74, 0),
     pickup_latitude |-> Num(40, 70000),
     dropoff_longitude |-> 0 - Num(73, 90000),
     dropoff_latitude |-> Num(40, 80000),
     passenger_count |-> Num(1, 0),
     trip_distance |-> Num(2, 0),
     fare_amount |-> Num(10, 0),
     tip_amount |-> Num(2, 0)]

CoreRows ==
    { Base,
      [Base EXCEPT !.id = 2, !.fare_amount = Num(600, 0)],
      [Base EXCEPT !.id = 3, !.dropoff_datetime = Text(Seconds(300), FmtIso)],
      [Base EXCEPT !.id = 4, !.pickup_datetime = Text(Seconds(60), FmtIso)],
      [Base EXCEPT !.id = 5, !.pickup_datetime = Text(0, FmtAlt)],
      [Base EXCEPT !.id = 6, !.dropoff_latitude = NaN],
      [Base EXCEPT !.id = 7, !.pickup_datetime = BadText] }

(* rows that differ from Base in one coordinate: the bounding box and its edges *)
GeoRows ==
    { Base,
      [Base EXCEPT !.id = 7, !.dropoff_datetime = BadText],
      [Base EXCEPT !.id = 8, !.pickup_datetime = NullText],
      [Base EXCEPT !.id = 9, !.dropoff_datetime = NullText] }
    \cup { [Base EXCEPT !.id = 2, !.pickup_latitude = v] :
             v \in {NaN, 0, Num(40, 49999), Num(40, 50000), Num(40, 50004),
                    Num(40, 99996), Num(41, 0), Num(41, 1)} }
    \cup { [Base EXCEPT !.id = 3, !.pickup_longitude = v] :
             v \in {NaN, 0, 0 - Num(74, 30001), 0 - Num(74, 30000), 0 - Num(74, 29996),
                    0 - Num(73, 70000), 0 - Num(73, 69999)} }
    \cup { [Base EXCEPT !.id = 4, !.dropoff_latitude = v] :
             v \in {NaN, 0, Num(40, 49999), Num(40, 50000), Num(41, 0), Num(41, 1)} }
    \cup { [Base EXCEPT !.id = 5, !.dropoff_longitude = v] :
             v \in {NaN, 0, 0 - Num(74, 30001), 0 - Num(74, 30000),
                    0 - Num(73, 70000), 0 - Num(73, 69999)} }

(* rows that differ from Base in the duration or in one optional field *)
RangeRows ==
    { Base, [Base EXCEPT !.id = 7, !.pickup_datetime = BadText] }
    \cup { [Base EXCEPT !.id = 2, !.dropoff_datetime = v] :
             v \in {NullText, Text(0, FmtIso), Text(1, FmtIso), Text(Seconds(1), FmtIso),
                    Text(Seconds(86400), FmtIso), Text(Seconds(86400) + 1, FmtIso)} }
    \cup { [Base EXCEPT !.id = 3, !.pickup_datetime = v] :
             v \in {NullText, Text(Seconds(600), FmtAlt), Text(Seconds(601), FmtIso)} }
    \cup { [Base EXCEPT !.id = 4, !.passenger_count = v] :
             v \in {NaN, 0, Num(0, 50000), Num(7, 0), Num(7, 50000), Num(8, 0)} }
    \cup { [Base EXCEPT !.id = 5, !.trip_distance = v] :
             v \in {NaN, 0, Num(100, 0), Num(100, 1)} }
    \cup { [Base EXCEPT !.id = 5, !.trip_distance = Num(0, 4), !.fare_amount = 0] }
    \cup { [Base EXCEPT !.id = 6, !.fare_amount = v] :
             v \in {NaN, 0 - Num(0, 1), 0, Num(500, 0), Num(500, 1)} }

(* rows that lack one required field, or only the passenger count *)
MissingRows ==
    { Base,
      [Base EXCEPT !.id = 2, !.pickup_datetime = NullText, !.passenger_count = Num(2, 0)],
      [Base EXCEPT !.id = 3, !.dropoff_datetime = NullText, !.passenger_count = NaN],
      [Base EXCEPT !.id = 4, !.pickup_longitude = NaN, !.fare_amount = Num(600, 0)],
      [Base EXCEPT !.id = 5, !.pickup_latitude = NaN],
      [Base EXCEPT !.id = 6, !.dropoff_longitude = NaN],
      [Base EXCEPT !.id = 7, !.dropoff_latitude = NaN],
      [Base EXCEPT !.id = 8, !.passenger_count = NaN],
      [Base EXCEPT !.id = 9, !.passenger_count = Num(3, 0),
                   !.dropoff_datetime = Text(Seconds(300), FmtIso)],
      [Base EXCEPT !.id = 10, !.dropoff_datetime = BadText] }

Schemas ==
    { AllColumns,
      AllColumns \ OptionalColumns,
      AllColumns \ {"dropoff_latitude"} }

Project(r, cols) == [c \in cols |-> r[c]]

(* a path that pd.read_csv cannot open or parse *)
Unreadable == [readable |-> FALSE, columns |-> {}, rows |-> <<>>]

InputsOver(rowset, n) ==
    UNION { [1..k -> rowset] : k \in 0..n }

InitOver(rowset, n) ==
    /\ \/ \E cols \in Schemas : \E rows \in InputsOver(rowset, n) :
             input_file = [readable |-> TRUE,
                           columns |-> cols,
                           rows |-> [i \in 1..Len(rows) |-> Project(rows[i], cols)]]
       \/ input_file = Unreadable
    /\ argsort_ties \in {"input_order", "reversed"}
    /\ pc = "load_data"
    /\ df = NoDf
    /\ excluded_records = <<>>
    /\ cleaning_stats = EmptyDict
    /\ cleaned_csv = NoFile
    /\ excluded_json = NoFile
    /\ report_json = NoFile
    /\ runs = 1
    /\ prev_run = [completed |-> FALSE, log_len |-> 0]
    /\ ApiIdle
    /\ LoaderIdle

(* inputs whose exclusion log reaches the cap of save_excluded_records: a run of *)
(* rows that lack dropoff_latitude, then up to MaxLen - 2 rows of LogRows        *)
LogFill == [Base EXCEPT !.id = 9, !.dropoff_latitude = NaN]
LogRows ==
    { Base,
      [Base EXCEPT !.id = 2, !.fare_amount = Num(600, 0)],
      [Base EXCEPT !.id = 3, !.pickup_latitude = NaN] }

InitLog ==
    /\ \/ \E cols \in Schemas : \E tail \in InputsOver(LogRows, MaxLen - 2) :
          \E k \in {0, 1, 999, 1000, 1001} :
             input_file = [readable |-> TRUE,
                           columns |-> cols,
                           rows |-> [i \in 1..k |-> Project(LogFill, cols)]
                                      \o [i \in 1..Len(tail) |-> Project(tail[i], cols)]]
       \/ input_file = Unreadable
    /\ argsort_ties \in {"input_order", "reversed"}
    /\ pc = "load_data"
    /\ df = NoDf
    /\ excluded_records = <<>>
    /\ cleaning_stats = EmptyDict
    /\ cleaned_csv = NoFile
    /\ excluded_json = NoFile
    /\ report_json = NoFile
    /\ runs = 1
    /\ prev_run = [completed |-> FALSE, log_len |-> 0]
    /\ ApiIdle
    /\ LoaderIdle

(* rows that differ from Base in what the derived features are computed from:   *)
(* 2 miles are 3.21868 km, which 96.5604 s (1931208 ticks) cover at 120 km/h    *)
DeriveRows ==
    { Base,
      [Base EXCEPT !.id = 2, !.trip_distance = Num(1, 0),
                   !.dropoff_datetime = Text(Seconds(1), FmtIso)] }
    \cup { [Base EXCEPT !.id = 3, !.dropoff_datetime = Text(t, FmtIso)] :
             t \in {1931207, 1931208, 1931209} }
    \cup { [Base EXCEPT !.id = 4, !.fare_amount = 0, !.tip_amount = v] :
             v \in {0, Num(5, 0), NaN} }
    \cup { [Base EXCEPT !.id = 5, !.fare_amount = v, !.tip_amount = Num(1, 0)] :
             v \in {Num(3, 0), Num(32, 0), NaN} }
    \cup { [Base EXCEPT !.id = 6, !.tip_amount = NaN] }
    \cup { [Base EXCEPT !.id = 7, !.trip_distance = v] :
             v \in {NaN, Num(0, 99996), Num(0, 99999), Num(1, 0), Num(2, 99999), Num(3, 0),
                    Num(9, 99999), Num(10, 0)} }

InitDerive == InitOver(DeriveRows, MaxLen - 2)

(* rows that meet one condition of the validity filter, or stand on its edge;   *)
(* each at a pickup longitude of its own, so that none duplicates another       *)
At(n, row) == [row EXCEPT !.id = n, !.pickup_longitude = 0 - Num(74, n)]
OutlierRows ==
    { At(1, Base),
      At(2, [Base EXCEPT !.dropoff_datetime = Text(0, FmtIso)]),
      At(3, [Base EXCEPT !.dropoff_datetime = Text(Seconds(86400), FmtIso)]),
      At(4, [Base EXCEPT !.dropoff_datetime = Text(Seconds(86400) + 1, FmtIso)]),
      At(5, [Base EXCEPT !.pickup_latitude = Num(40, 49999)]),
      At(6, [Base EXCEPT !.dropoff_longitude = 0]),
      At(7, [Base EXCEPT !.dropoff_longitude = 0 - Num(73, 69999)]),
      At(8, [Base EXCEPT !.passenger_count = 0]),
      At(9, [Base EXCEPT !.passenger_count = Num(7, 50000)]),
      At(10, [Base EXCEPT !.trip_distance = 0]),
      At(11, [Base EXCEPT !.trip_distance = NaN]),
      At(12, [Base EXCEPT !.fare_amount = 0]),
      At(13, [Base EXCEPT !.fare_amount = Num(500, 1)]) }

InitOutlier == InitOver(OutlierRows, MaxLen - 1)

Init == InitOver(CoreRows, MaxLen)
InitMissing == InitOver(MissingRows, MaxLen - 1)
InitGeo == InitOver(GeoRows, MaxLen - 2)
InitRange == InitOver(RangeRows, MaxLen - 2)

(* mutant of set_stat: the counter is accumulated (+=) instead of assigned *)
add_stat(stats, k, v) ==
    Put(stats, k, IF k \in DOMAIN stats THEN stats[k] + v ELSE v)

(* mutant of set_stat: the dictionary is replaced by one with this counter only *)
new_stat(stats, k, v) == (k :> v)

(* self.cleaning_stats[k] = v *)
set_stat(stats, k, v) == Put(stats, k, v)

(* ------------------------------------------------------------- load_data *)
read_csv(file) ==
    [columns |-> file.columns,
     rows |-> [i \in 1..Len(file.rows) |-> [src |-> i, cells |-> file.rows[i]]]]

(* mutant of load_data: an unreadable input is taken for an empty table *)
load_data_empty ==
    /\ pc = "load_data"
    /\ UNCHANGED <<api_vars, loader_vars>>
    /\ df' = IF input_file.readable THEN read_csv(input_file)
             ELSE [columns |-> AllColumns, rows |-> <<>>]
    /\ cleaning_stats' = set_stat(cleaning_stats, "original_count", Len(df'.rows))
    /\ pc' = "handle_missing_values"
    /\ UNCHANGED <<input_file, argsort_ties, excluded_records, cleaned_csv,
                   excluded_json, report_json, runs, prev_run>>

load_data ==
    /\ pc = "load_data"
    /\ UNCHANGED <<api_vars, loader_vars>>
    /\ IF ~input_file.readable
       THEN \* pd.read_csv raises: nothing is assigned
            /\ pc' = "failed"
            /\ UNCHANGED <<df, cleaning_stats>>
       ELSE /\ df' = read_csv(input_file)
            /\ cleaning_stats' = set_stat(cleaning_stats, "original_count", Len(df'.rows))
            /\ pc' = "handle_missing_values"
    /\ UNCHANGED <<input_file, argsort_ties, excluded_records, cleaned_csv,
                   excluded_json, report_json, runs, prev_run>>

(* ------------------------------------------------- handle_missing_values *)
isnull(c, v) == IF c \in TextColumns THEN v.fmt = FmtNull ELSE v = NaN

missing_mask(r) == \E c \in critical_fields : isnull(c, r.cells[c])

(* mutant of dropna: how='all', a row goes only when every required field is null *)
dropna_all(rows) ==
    Select(rows, [i \in 1..Len(rows) |->
                     ~(\A c \in critical_fields : isnull(c, rows[i].cells[c]))])

dropna(rows) == Select(rows, [i \in 1..Len(rows) |-> ~missing_mask(rows[i])])

(* mutant of fillna: the in-place fill does not reach the frame *)
fillna_lost(v, value) == v

fillna(v, value) == IF v = NaN THEN value ELSE v

(* self.df['passenger_count'].fillna(1, inplace=True) *)
fill_passenger_count(rows) ==
    SetColumn(rows, "passenger_count",
              [i \in 1..Len(rows) |-> fillna(rows[i].cells["passenger_count"], Num(1, 0))])

handle_missing_values ==
    /\ pc = "handle_missing_values"
    /\ UNCHANGED <<api_vars, loader_vars>>
    /\ IF ~(critical_fields \subseteq df.columns)
       THEN \* KeyError: a required column is not in the frame
            /\ pc' = "failed"
            /\ UNCHANGED <<df, excluded_records, cleaning_stats>>
       ELSE LET initial_count == Len(df.rows)
                missing == Select(df.rows, [i \in 1..Len(df.rows) |-> missing_mask(df.rows[i])])
                kept == dropna(df.rows)
                filled == IF "passenger_count" \in df.columns
                          THEN fill_passenger_count(kept)
                          ELSE kept
            IN /\ excluded_records' = excluded_records \o to_dict(missing, "missing")
               /\ df' = [df EXCEPT !.rows = filled]
               /\ cleaning_stats' = set_stat(cleaning_stats, "missing_values_removed",
                                        initial_count - Len(filled))
               /\ pc' = "remove_duplicates"
    /\ UNCHANGED <<input_file, argsort_ties, cleaned_csv, excluded_json, report_json,
                   runs, prev_run>>

(* ----------------------------------------------------- remove_duplicates *)
DupKey(r) == [c \in duplicate_cols |-> r.cells[c]]

(* mutant of duplicated: keep='last' *)
duplicated_keep_last(rows, i) ==
    \E j \in (i + 1)..Len(rows) : DupKey(rows[j]) = DupKey(rows[i])

(* DataFrame.duplicated(subset=duplicate_cols, keep='first') *)
duplicated(rows, i) == \E j \in 1..(i - 1) : DupKey(rows[j]) = DupKey(rows[i])

(* mutant of drop_duplicates: keep='last', while the log is made with keep='first' *)
drop_duplicates_keep_last(rows) ==
    Select(rows, [i \in 1..Len(rows) |-> ~duplicated_keep_last(rows, i)])

drop_duplicates(rows) == Select(rows, [i \in 1..Len(rows) |-> ~duplicated(rows, i)])

remove_duplicates ==
    /\ pc = "remove_duplicates"
    /\ UNCHANGED <<api_vars, loader_vars>>
    /\ LET initial_count == Len(df.rows)
           duplicates == Select(df.rows, [i \in 1..Len(df.rows) |-> duplicated(df.rows, i)])
           kept == drop_duplicates(df.rows)
       IN /\ excluded_records' = excluded_records \o to_dict(duplicates, "duplicate")
          /\ df' = [df EXCEPT !.rows = kept]
          /\ cleaning_stats' = set_stat(cleaning_stats, "duplicates_removed",
                                   initial_count - Len(kept))
    /\ pc' = "handle_outliers_and_invalid_records"
    /\ UNCHANGED <<input_file, argsort_ties, cleaned_csv, excluded_json, report_json,
                   runs, prev_run>>

(* ----------------------------------- handle_outliers_and_invalid_records *)
(* float comparisons: false whenever an operand is NaN *)
lt(a, b) == a # NaN /\ a < b
gt(a, b) == a # NaN /\ a > b
le(a, b) == a # NaN /\ a <= b
eq(a, b) == a # NaN /\ a = b

(* pd.to_datetime of one cell; Unparseable(v) is where it raises *)
Unparseable(v) == v.fmt = FmtBad
to_datetime(v) == v.t

total_seconds(dropoff, pickup) == dropoff - pickup

(* mutant of invalid_conditions: a fare of 0 is invalid too *)
invalid_conditions_fare_le(columns, r) ==
    LET c == r.cells IN
    \/ le(c["trip_duration_seconds"], 0)
    \/ gt(c["trip_duration_seconds"], Seconds(86400))
    \/ lt(c["pickup_latitude"], Num(40, 50000)) \/ gt(c["pickup_latitude"], Num(41, 0))
    \/ lt(c["pickup_longitude"], 0 - Num(74, 30000))
    \/ gt(c["pickup_longitude"], 0 - Num(73, 70000))
    \/ lt(c["dropoff_latitude"], Num(40, 50000)) \/ gt(c["dropoff_latitude"], Num(41, 0))
    \/ lt(c["dropoff_longitude"], 0 - Num(74, 30000))
    \/ gt(c["dropoff_longitude"], 0 - Num(73, 70000))
    \/ eq(c["pickup_latitude"], 0) \/ eq(c["pickup_longitude"], 0)
    \/ eq(c["dropoff_latitude"], 0) \/ eq(c["dropoff_longitude"], 0)
    \/ /\ "trip_distance" \in columns
       /\ (le(c["trip_distance"], 0) \/ gt(c["trip_distance"], Num(100, 0)))
    \/ /\ "fare_amount" \in columns
       /\ (le(c["fare_amount"], 0) \/ gt(c["fare_amount"], Num(500, 0)))
    \/ /\ "passenger_count" \in columns
       /\ (le(c["passenger_count"], 0) \/ gt(c["passenger_count"], Num(7, 0)))

(* mutant of invalid_conditions: the dropoff coordinates are not tested *)
invalid_conditions_pickup_only(columns, r) ==
    LET c == r.cells IN
    \/ le(c["trip_duration_seconds"], 0)
    \/ gt(c["trip_duration_seconds"], Seconds(86400))
    \/ lt(c["pickup_latitude"], Num(40, 50000)) \/ gt(c["pickup_latitude"], Num(41, 0))
    \/ lt(c["pickup_longitude"], 0 - Num(74, 30000))
    \/ gt(c["pickup_longitude"], 0 - Num(73, 70000))
    \/ eq(c["pickup_latitude"], 0) \/ eq(c["pickup_longitude"], 0)
    \/ /\ "trip_distance" \in columns
       /\ (le(c["trip_distance"], 0) \/ gt(c["trip_distance"], Num(100, 0)))
    \/ /\ "fare_amount" \in columns
       /\ (lt(c["fare_amount"], 0) \/ gt(c["fare_amount"], Num(500, 0)))
    \/ /\ "passenger_count" \in columns
       /\ (le(c["passenger_count"], 0) \/ gt(c["passenger_count"], Num(7, 0)))

invalid_conditions(columns, r) ==
    LET c == r.cells IN
    \/ le(c["trip_duration_seconds"], 0)
    \/ gt(c["trip_duration_seconds"], Seconds(86400))
    \/ lt(c["pickup_latitude"], Num(40, 50000)) \/ gt(c["pickup_latitude"], Num(41, 0))
    \/ lt(c["pickup_longitude"], 0 - Num(74, 30000))
    \/ gt(c["pickup_longitude"], 0 - Num(73, 70000))
    \/ lt(c["dropoff_latitude"], Num(40, 50000)) \/ gt(c["dropoff_latitude"], Num(41, 0))
    \/ lt(c["dropoff_longitude"], 0 - Num(74, 30000))
    \/ gt(c["dropoff_longitude"], 0 - Num(73, 70000))
    \/ eq(c["pickup_latitude"], 0) \/ eq(c["pickup_longitude"], 0)
    \/ eq(c["dropoff_latitude"], 0) \/ eq(c["dropoff_longitude"], 0)
    \/ /\ "trip_distance" \in columns
       /\ (le(c["trip_distance"], 0) \/ gt(c["trip_distance"], Num(100, 0)))
    \/ /\ "fare_amount" \in columns
       /\ (lt(c["fare_amount"], 0) \/ gt(c["fare_amount"], Num(500, 0)))
    \/ /\ "passenger_count" \in columns
       /\ (le(c["passenger_count"], 0) \/ gt(c["passenger_count"], Num(7, 0)))

(* self.df[c] = pd.to_datetime(self.df[c]) *)
parse_column(rows, c) ==
    SetColumn(rows, c, [i \in 1..Len(rows) |-> to_datetime(rows[i].cells[c])])

(* self.df['trip_duration_seconds'] = (dropoff - pickup).dt.total_seconds() *)
add_duration(rows) ==
    SetColumn(rows, "trip_duration_seconds",
              [i \in 1..Len(rows) |-> total_seconds(rows[i].cells["dropoff_datetime"],
                                                    rows[i].cells["pickup_datetime"])])

handle_outliers_and_invalid_records ==
    /\ pc = "handle_outliers_and_invalid_records"
    /\ UNCHANGED <<api_vars, loader_vars>>
    /\ LET initial_count == Len(df.rows)
           pickup_bad == \E i \in 1..Len(df.rows) :
                             Unparseable(df.rows[i].cells["pickup_datetime"])
           with_pickup == parse_column(df.rows, "pickup_datetime")
           dropoff_bad == \E i \in 1..Len(df.rows) :
                              Unparseable(df.rows[i].cells["dropoff_datetime"])
           with_dropoff == parse_column(with_pickup, "dropoff_datetime")
           with_duration == add_duration(with_dropoff)
           columns == df.columns \cup {"trip_duration_seconds"}
           mask == [i \in 1..Len(with_duration) |->
                       invalid_conditions(columns, with_duration[i])]
           excluded == Select(with_duration, mask)
           kept == Select(with_duration, [i \in 1..Len(with_duration) |-> ~mask[i]])
       IN IF pickup_bad
          THEN \* pd.to_datetime raises on the pickup column
               /\ pc' = "failed"
               /\ UNCHANGED <<df, excluded_records, cleaning_stats>>
          ELSE IF dropoff_bad
          THEN \* the pickup column is already converted when the dropoff column raises
               /\ pc' = "failed"
               /\ df' = [df EXCEPT !.rows = with_pickup]
               /\ UNCHANGED <<excluded_records, cleaning_stats>>
          ELSE /\ excluded_records' = excluded_records \o to_dict(excluded, "outlier")
               /\ df' = [columns |-> columns, rows |-> kept]
               /\ cleaning_stats' = set_stat(cleaning_stats, "outliers_removed",
                                        initial_count - Len(kept))
               /\ pc' = "create_derived_features"
    /\ UNCHANGED <<input_file, argsort_ties, cleaned_csv, excluded_json, report_json,
                   runs, prev_run>>

(* ----------------------------------------------- create_derived_features *)
hour(t) == (t \div Seconds(3600)) % 24

(* Monday is 0; tick 0 is the midnight that starts a Friday (2016-01-01) *)
dayofweek(t) == (4 + (t \div Seconds(86400))) % 7

get_time_period(h) ==
    IF 6 <= h /\ h < 12 THEN "morning"
    ELSE IF 12 <= h /\ h < 18 THEN "afternoon"
    ELSE IF 18 <= h /\ h < 22 THEN "evening"
    ELSE "night"

(* mutant of categorize_distance: the thresholds belong to the lower category *)
categorize_distance_le(dist) ==
    IF le(dist, Num(1, 0)) THEN "very_short"
    ELSE IF le(dist, Num(3, 0)) THEN "short"
    ELSE IF le(dist, Num(10, 0)) THEN "medium"
    ELSE "long"

(* every Python comparison with NaN is false, so NaN falls to the last branch *)
categorize_distance(dist) ==
    IF lt(dist, Num(1, 0)) THEN "very_short"
    ELSE IF lt(dist, Num(3, 0)) THEN "short"
    ELSE IF lt(dist, Num(10, 0)) THEN "medium"
    ELSE "long"

(* a * b = q * c + r with 0 <= r < c, for a, b >= 0 and c > 0, computed without  *)
(* forming a * b: the cells are floats, whose products do not overflow            *)
(* from h = a * k as quotient and remainder by c, a * (2 * k + bit) the same way; *)
(* h is settled first, a proper remainder being below c                          *)
MulDivStep(h, a, c, bit) ==
    IF h.r >= c THEN h
    ELSE LET dc == IF h.r >= c - h.r THEN 1 ELSE 0
             dr == IF dc = 1 THEN h.r - (c - h.r) ELSE h.r + h.r
             dq == 2 * h.q + dc
             ar == a % c
             ac == IF dr >= c - ar THEN 1 ELSE 0
         IN IF bit = 0 THEN [q |-> dq, r |-> dr]
            ELSE [q |-> dq + (a \div c) + ac,
                  r |-> IF ac = 1 THEN dr - (c - ar) ELSE dr + ar]

(* the same for the four bits of n, from a * k to a * (16 * k + n) *)
MulDivNibble(h, a, c, n) ==
    MulDivStep(MulDivStep(MulDivStep(MulDivStep(h, a, c, (n \div 8) % 2),
                                     a, c, (n \div 4) % 2), a, c, (n \div 2) % 2), a, c, n % 2)

(* eight bits of b a level *)
RECURSIVE MulDivMod(_, _, _)
MulDivMod(a, b, c) ==
    IF b = 0 THEN [q |-> 0, r |-> 0]
    ELSE LET h == MulDivMod(a, b \div 256, c)
         IN IF h.r >= c THEN h
            ELSE MulDivNibble(MulDivNibble(h, a, c, (b \div 16) % 16), a, c, b % 16)

(* a * b / c rounded to the nearest integer, ties to even; a of either sign *)
MulDiv(a, b, c) ==
    LET m == MulDivMod(IF a < 0 THEN 0 - a ELSE a, b, c)
        n == IF m.r > c - m.r THEN m.q + 1
             ELSE IF m.r < c - m.r THEN m.q
             ELSE IF m.q % 2 = 0 THEN m.q ELSE m.q + 1
    IN IF a < 0 THEN 0 - n ELSE n

(* trip_distance * 1.60934 *)
distance_km(dist) == IF dist = NaN THEN NaN ELSE MulDiv(dist, 160934, Scale)

(* mutant of speed_kmh: no speed is set to None *)
speed_kmh_unclipped(km, duration) ==
    IF km = NaN THEN NaN ELSE MulDiv(km, 3600 * TicksPerSecond, duration)

(* trip_distance_km / (trip_duration_seconds / 3600), None when > 120 or < 0;   *)
(* the duration of a surviving row is positive                                   *)
speed_kmh(km, duration) ==
    IF km = NaN THEN NaN
    ELSE IF 6 * km > duration THEN NaN                  \* speed > 120
    ELSE IF km < 0 THEN NaN                             \* speed < 0
    ELSE MulDiv(km, 3600 * TicksPerSecond, duration)

(* fare_amount / trip_distance_km, None where trip_distance_km == 0 *)
fare_per_km(fare, km) ==
    IF fare = NaN \/ km = NaN \/ km = 0 THEN NaN ELSE MulDiv(fare, Scale, km)

(* mutant of tip_percentage: the result of the division by 0 is left in place *)
tip_percentage_unforced(tip, fare) ==
    IF tip = NaN \/ fare = NaN \/ fare = 0 THEN NaN
    ELSE MulDiv(tip, 100 * 100, fare) * (Scale \div 100)

(* ((tip_amount / fare_amount) * 100).round(2), then 0 where fare_amount == 0 *)
tip_percentage(tip, fare) ==
    IF fare = 0 THEN 0
    ELSE IF tip = NaN \/ fare = NaN THEN NaN
    ELSE MulDiv(tip, 100 * 100, fare) * (Scale \div 100)

add_distance_km(rows) ==
    SetColumn(rows, "trip_distance_km",
              [i \in 1..Len(rows) |-> distance_km(rows[i].cells["trip_distance"])])

add_speed_kmh(rows) ==
    SetColumn(rows, "trip_speed_kmh",
              [i \in 1..Len(rows) |-> speed_kmh(rows[i].cells["trip_distance_km"],
                                                rows[i].cells["trip_duration_seconds"])])

add_fare_per_km(rows) ==
    SetColumn(rows, "fare_per_km",
              [i \in 1..Len(rows) |-> fare_per_km(rows[i].cells["fare_amount"],
                                                  rows[i].cells["trip_distance_km"])])

add_hour_of_day(rows) ==
    SetColumn(rows, "hour_of_day",
              [i \in 1..Len(rows) |-> hour(rows[i].cells["pickup_datetime"])])

add_day_of_week(rows) ==
    SetColumn(rows, "day_of_week",
              [i \in 1..Len(rows) |-> dayofweek(rows[i].cells["pickup_datetime"])])

add_time_period(rows) ==
    SetColumn(rows, "time_period",
              [i \in 1..Len(rows) |-> get_time_period(rows[i].cells["hour_of_day"])])

add_distance_category(rows) ==
    SetColumn(rows, "distance_category",
              [i \in 1..Len(rows) |-> categorize_distance(rows[i].cells["trip_distance"])])

add_tip_percentage(rows) ==
    SetColumn(rows, "tip_percentage",
              [i \in 1..Len(rows) |-> tip_percentage(rows[i].cells["tip_amount"],
                                                     rows[i].cells["fare_amount"])])

(* the columns create_derived_features adds to a frame with these columns *)
derived_columns(columns) ==
    {"hour_of_day", "day_of_week", "time_period"}
      \cup (IF "trip_distance" \in columns
            THEN {"trip_distance_km", "trip_speed_kmh", "distance_category"} ELSE {})
      \cup (IF "fare_amount" \in columns /\ "trip_distance" \in columns
            THEN {"fare_per_km"} ELSE {})
      \cup (IF "tip_amount" \in columns /\ "fare_amount" \in columns
            THEN {"tip_percentage"} ELSE {})

(* the statements of create_derived_features, one column at a time, each on the *)
(* frame the statement before it left                                           *)
create_derived_features ==
    /\ pc = "create_derived_features"
    /\ UNCHANGED <<api_vars, loader_vars>>
    /\ LET has(c) == c \in df.columns
           speed(x) == IF has("trip_distance") THEN add_speed_kmh(add_distance_km(x)) ELSE x
           fare(x) == IF has("fare_amount") /\ has("trip_distance") THEN add_fare_per_km(x) ELSE x
           time(x) == add_time_period(add_day_of_week(add_hour_of_day(x)))
           category(x) == IF has("trip_distance") THEN add_distance_category(x) ELSE x
           tip(x) == IF has("tip_amount") /\ has("fare_amount") THEN add_tip_percentage(x) ELSE x
       IN \E r1 \in {speed(df.rows)} : \E r2 \in {fare(r1)} : \E r3 \in {time(r2)} :
          \E r4 \in {category(r3)} :
              df' = [columns |-> df.columns \cup derived_columns(df.columns),
                     rows |-> tip(r4)]
    /\ pc' = "normalize_and_format"
    /\ UNCHANGED <<input_file, argsort_ties, excluded_records, cleaning_stats, cleaned_csv,
                   excluded_json, report_json, runs, prev_run>>

(* -------------------------------------------------- normalize_and_format *)
(* v rounded to the nearest multiple of q, ties to the even multiple (np.round) *)
RoundHalfEven(v, q) ==
    LET lo == (v \div q) * q
        rem == v - lo
    IN IF 2 * rem < q THEN lo
       ELSE IF 2 * rem > q THEN lo + q
       ELSE IF (v \div q) % 2 = 0 THEN lo ELSE lo + q

(* select_dtypes(include=[np.number]) *)
IntColumns == {"id", "hour_of_day", "day_of_week"}
FloatColumns ==
    {"pickup_longitude", "pickup_latitude", "dropoff_longitude", "dropoff_latitude",
     "passenger_count", "trip_distance", "fare_amount", "tip_amount",
     "trip_distance_km", "trip_speed_kmh", "fare_per_km", "tip_percentage"}
numeric_cols(columns) ==
    columns \cap (IntColumns \cup FloatColumns \cup {"trip_duration_seconds"})

(* Series.round(4) of one cell of column c *)
round4(c, v) ==
    IF v = NaN \/ c \in IntColumns THEN v
    ELSE IF c = "trip_duration_seconds" THEN RoundHalfEven(v, TicksPerSecond \div Quantum)
    ELSE RoundHalfEven(v, Scale \div Quantum)

(* astype(int) of one float cell: truncation toward zero, to a Python int *)
astype_int(v) == IF v >= 0 THEN v \div Scale ELSE 0 - ((0 - v) \div Scale)

RECURSIVE InsertByPickup(_, _)
InsertByPickup(sorted, r) ==
    IF sorted = <<>> THEN <<r>>
    ELSE IF sorted[Len(sorted)].cells["pickup_datetime"] <= r.cells["pickup_datetime"]
         THEN Append(sorted, r)
         ELSE Append(InsertByPickup(SubSeq(sorted, 1, Len(sorted) - 1), r),
                     sorted[Len(sorted)])

RECURSIVE StableSort(_)
StableSort(rows) ==
    IF rows = <<>> THEN <<>>
    ELSE InsertByPickup(StableSort(SubSeq(rows, 1, Len(rows) - 1)), rows[Len(rows)])

Reverse(rows) == [i \in 1..Len(rows) |-> rows[Len(rows) + 1 - i]]

(* mutant of sort_values: the frame is left in the order it had *)
sort_values_unsorted(rows, ties) == rows

(* mutant of sort_values: rows are keyed by pickup time, one row per key survives *)
sort_values_unique(rows, ties) ==
    LET sorted == StableSort(rows)
    IN Select(sorted, [i \in 1..Len(sorted) |->
                          \A j \in 1..(i - 1) : sorted[j].cells["pickup_datetime"]
                                                   # sorted[i].cells["pickup_datetime"]])

(* sort_values('pickup_datetime'): kind defaults to 'quicksort', which orders the  *)
(* keys and leaves the order of equal keys to the build; ties is what it does there *)
sort_values(rows, ties) ==
    IF ties = "input_order" THEN StableSort(rows) ELSE StableSort(Reverse(rows))

(* round(4) of every numeric column but passenger_count *)
round_columns(columns, rows) ==
    [i \in 1..Len(rows) |->
        [rows[i] EXCEPT !.cells =
            [c \in columns |->
                IF c \in numeric_cols(columns) \ {"passenger_count"}
                THEN round4(c, rows[i].cells[c])
                ELSE rows[i].cells[c]]]]

(* self.df['passenger_count'] = self.df['passenger_count'].astype(int) *)
cast_passenger_count(rows) ==
    SetColumn(rows, "passenger_count",
              [i \in 1..Len(rows) |-> astype_int(rows[i].cells["passenger_count"])])

normalize_and_format ==
    /\ pc = "normalize_and_format"
    /\ UNCHANGED <<api_vars, loader_vars>>
    /\ LET rounded == round_columns(df.columns, df.rows)
           has_pc == "passenger_count" \in df.columns
           cast == IF has_pc THEN cast_passenger_count(rounded) ELSE rounded
           sorted == sort_values(cast, argsort_ties)
       IN IF has_pc /\ \E i \in 1..Len(df.rows) : df.rows[i].cells["passenger_count"] = NaN
          THEN \* astype(int) raises on NaN; the rounded columns are already assigned
               /\ pc' = "failed"
               /\ df' = [df EXCEPT !.rows = rounded]
               /\ UNCHANGED cleaning_stats
          ELSE /\ df' = [df EXCEPT !.rows = sorted]
               /\ cleaning_stats' = set_stat(cleaning_stats, "final_count", Len(sorted))
               /\ pc' = "save_cleaned_data"
    /\ UNCHANGED <<input_file, argsort_ties, excluded_records, cleaned_csv,
                   excluded_json, report_json, runs, prev_run>>

(* ---------------------------------------------------- save_cleaned_data  *)
(* to_csv(index=False): a datetime cell is written as "YYYY-MM-DD HH:MM:SS" text *)
to_csv(frame) ==
    [written |-> TRUE,
     columns |-> frame.columns,
     rows |-> [i \in 1..Len(frame.rows) |->
                 [c \in frame.columns |->
                     IF c \in TextColumns THEN Text(frame.rows[i].cells[c], FmtIso)
                     ELSE frame.rows[i].cells[c]]]]

save_cleaned_data ==
    /\ pc = "save_cleaned_data"
    /\ UNCHANGED <<api_vars, loader_vars>>
    /\ cleaned_csv' = to_csv(df)
    /\ pc' = "save_excluded_records"
    /\ UNCHANGED <<input_file, argsort_ties, df, excluded_records, cleaning_stats,
                   excluded_json, report_json, runs, prev_run>>

(* ------------------------------------------------- save_excluded_records *)
ExcludedCap == 1000

(* mutant of save_excluded_records: count is taken after the cap *)
save_excluded_records_capped_count ==
    /\ pc = "save_excluded_records"
    /\ UNCHANGED <<api_vars, loader_vars>>
    /\ excluded_json' =
          [written |-> TRUE,
           count |-> Min(Len(excluded_records), ExcludedCap),
           records |-> SubSeq(excluded_records, 1, Min(Len(excluded_records), ExcludedCap))]
    /\ pc' = "generate_cleaning_report"
    /\ UNCHANGED <<input_file, argsort_ties, df, excluded_records, cleaning_stats,
                   cleaned_csv, report_json, runs, prev_run>>

save_excluded_records ==
    /\ pc = "save_excluded_records"
    /\ UNCHANGED <<api_vars, loader_vars>>
    /\ excluded_json' =
          [written |-> TRUE,
           count |-> Len(excluded_records),
           records |-> SubSeq(excluded_records, 1, Min(Len(excluded_records), ExcludedCap))]
    /\ pc' = "generate_cleaning_report"
    /\ UNCHANGED <<input_file, argsort_ties, df, excluded_records, cleaning_stats,
                   cleaned_csv, report_json, runs, prev_run>>

(* ---------------------------------------------- generate_cleaning_report *)
(* f"{final / original * 100:.2f}%": the percentage in hundredths of a percent *)
retention_rate(final, original) ==
    LET n == final * 10000
        q == n \div original
        rem == n - q * original
    IN IF 2 * rem < original THEN q
       ELSE IF 2 * rem > original THEN q + 1
       ELSE IF q % 2 = 0 THEN q ELSE q + 1

generate_cleaning_report ==
    /\ pc = "generate_cleaning_report"
    /\ UNCHANGED <<api_vars, loader_vars>>
    /\ IF cleaning_stats["original_count"] = 0
       THEN \* ZeroDivisionError, before the report file is opened
            /\ pc' = "failed"
            /\ UNCHANGED report_json
       ELSE /\ report_json' =
                  [written |-> TRUE,
                   statistics |-> cleaning_stats,
                   retention_rate |-> retention_rate(cleaning_stats["final_count"],
                                                     cleaning_stats["original_count"]),
                   columns |-> df.columns]
            /\ pc' = "done"
    /\ UNCHANGED <<input_file, argsort_ties, df, excluded_records, cleaning_stats,
                   cleaned_csv, excluded_json, runs, prev_run>>

(* ------------------------------------------------------------ process_all *)
Outputs(log_len) ==
    [completed |-> TRUE, log_len |-> log_len,
     cleaned_csv |-> cleaned_csv, statistics |-> cleaning_stats]

(* process_all called once more on the same cleaner, on the same input file *)
process_all_again ==
    /\ pc = "done"
    /\ UNCHANGED <<api_vars, loader_vars>>
    /\ runs < MaxRuns
    /\ runs' = runs + 1
    /\ prev_run' = Outputs(Len(excluded_records))
    /\ pc' = "load_data"
    /\ UNCHANGED <<input_file, argsort_ties, df, excluded_records, cleaning_stats,
                   cleaned_csv, excluded_json, report_json>>

(* NYCTaxiDataCleaner(input_file).process_all() on a new cleaner, same input file *)
new_cleaner ==
    /\ pc = "done"
    /\ UNCHANGED <<api_vars, loader_vars>>
    /\ runs < MaxRuns
    /\ runs' = runs + 1
    /\ prev_run' = Outputs(0)
    /\ df' = NoDf
    /\ excluded_records' = <<>>
    /\ cleaning_stats' = EmptyDict
    /\ pc' = "load_data"
    /\ UNCHANGED <<input_file, argsort_ties, cleaned_csv, excluded_json, report_json>>

Next ==
    \/ load_data
    \/ handle_missing_values
    \/ remove_duplicates
    \/ handle_outliers_and_invalid_records
    \/ create_derived_features
    \/ normalize_and_format
    \/ save_cleaned_data
    \/ save_excluded_records
    \/ generate_cleaning_report
    \/ process_all_again
    \/ new_cleaner

Spec == Init /\ [][Next]_vars
SpecMissing == InitMissing /\ [][Next]_vars
SpecGeo == InitGeo /\ [][Next]_vars
SpecRange == InitRange /\ [][Next]_vars
SpecLog == InitLog /\ [][Next]_vars
SpecDerive == InitDerive /\ [][Next]_vars
SpecOutlier == InitOutlier /\ [][Next]_vars

(* ------------------------------------------------------------- API server  *)
(* backend/app.py. A query parameter arrives as text or not at all: the text of *)
(* an integer ("3"), a text with a fractional digit ("2.5", val in tenths),    *)
(* a text that is no number ("abc"), or any other string.                       *)
Absent == [kind |-> "absent"]
IntText(n) == [kind |-> "int", val |-> n]
DecimalText(tenths) == [kind |-> "decimal", val |-> tenths]
Word == [kind |-> "word"]
Str(text) == [kind |-> "str", s |-> text]

ValueError == [raised |-> TRUE]
Value(v) == [raised |-> FALSE, val |-> v]

(* int(text): only the text of an integer converts *)
int(text) == IF text.kind = "int" THEN Value(text.val) ELSE ValueError

(* float(text): the text of an integer or of a decimal converts; in tenths *)
float(text) ==
    IF text.kind = "int" THEN Value(10 * text.val)
    ELSE IF text.kind = "decimal" THEN Value(text.val)
    ELSE ValueError

(* request.args.get(key, default) *)
get(args, key, default) == IF args[key] = Absent THEN default ELSE args[key]

(* request.args.get(key, type=int): the default, None, when the parameter is    *)
(* absent and when type() raises ValueError                                     *)
get_int(args, key) ==
    IF args[key] = Absent \/ int(args[key]).raised THEN None ELSE Some(int(args[key]).val)

(* request.args.get(key, type=float) *)
get_float(args, key) ==
    IF args[key] = Absent \/ float(args[key]).raised THEN None ELSE Some(float(args[key]).val)

(* str.lower() on the texts of the flag parameters *)
lower(text) ==
    CASE text = "TRUE" -> "true"
      [] text = "Yes" -> "yes"
      [] OTHER -> text

Max(a, b) == IF a > b THEN a ELSE b

(* the parameters of GET /api/trips *)
IntFilters == {"vendor_id", "min_duration", "max_duration"}
FloatFilters == {"min_distance", "max_distance"}
DateFilters == {"start_date", "end_date"}
FlagFilters == {"is_rush_hour", "is_weekend"}
NumericParameters == {"page", "limit"} \cup IntFilters \cup FloatFilters
TripsParameters == NumericParameters \cup DateFilters \cup FlagFilters

(* the requests served: every mix of pagination and numeric filters, and every  *)
(* mix of date and flag filters                                                 *)
PageTexts == {Absent, IntText(0 - 1), IntText(0), IntText(1), IntText(3), DecimalText(25), Word}
LimitTexts == {Absent, IntText(0), IntText(1), IntText(2), IntText(1000), IntText(1001), Word}
TripsArgs ==
    { [k \in TripsParameters |->
          CASE k = "page" -> p
            [] k = "limit" -> l
            [] k \in IntFilters -> f[k]
            [] k \in FloatFilters -> g[k]
            [] OTHER -> Absent] :
      p \in PageTexts, l \in LimitTexts,
      f \in [IntFilters -> {Absent, IntText(2), Word}],
      g \in [FloatFilters -> {Absent, DecimalText(25), Word}] }
    \cup
    { [k \in TripsParameters |->
          CASE k \in DateFilters -> d[k]
            [] k \in FlagFilters -> b[k]
            [] OTHER -> Absent] :
      d \in [DateFilters -> {Absent, Str(""), Str("2016-01-01")}],
      b \in [FlagFilters -> {Absent, Str("TRUE"), Str("no")}] }

(* what the count query can answer *)
Totals == 0..MaxTotal \cup {1000, 1001, 2001}

jsonify(code, fields) == [status |-> code, body |-> fields]

(* where the database makes a view raise: nowhere, in get_db_connection, in     *)
(* cursor.execute, in the fetch; get_trips runs a second query, the count        *)
Faults_query == {"none", "connect", "execute", "fetch"}
Faults_trips == Faults_query \cup {"count"}

(* conn = get_db_connection() and conn.close(), on the number of open connections *)
get_db_connection(n) == n + 1
close(n) == n - 1

(* the try block of a view: the connection is opened unless connecting raises,  *)
(* and conn.close() is the last statement before the return, reached when       *)
(* nothing raised                                                               *)
try_block(n, fault) ==
    CASE fault = "connect" -> n
      [] fault = "none" -> close(get_db_connection(n))
      [] OTHER -> get_db_connection(n)

(* the views are modelled while fewer than MaxOpen connections are left open *)
Admitted(fault) == fault \in {"none", "connect"} \/ connections < MaxOpen

Timestamp == "datetime.now().isoformat()"

(* GET /api/health *)
health_check ==
    /\ request = NoRequest
    /\ \E connected \in BOOLEAN :
          /\ request' = [endpoint |-> "/api/health", connected |-> connected]
          /\ response' =
               IF connected
               THEN jsonify(200, [status |-> "healthy", database |-> "connected",
                                  timestamp |-> Timestamp])
               ELSE jsonify(500, [status |-> "unhealthy", database |-> "disconnected",
                                  error |-> "str(e)", timestamp |-> Timestamp])
          /\ connections' = IF connected THEN close(get_db_connection(connections))
                                          ELSE connections
    /\ UNCHANGED <<sql, pipeline_vars, loader_vars>>

(* the filters get_trips applies: a numeric filter that is not None, a date     *)
(* that is not empty, a flag that is present                                    *)
filters_applied(args) ==
    LET keys == { k \in IntFilters : get_int(args, k) # None }
                \cup { k \in FloatFilters : get_float(args, k) # None }
                \cup { k \in DateFilters : args[k] # Absent /\ args[k].s # "" }
                \cup { k \in FlagFilters : args[k] # Absent }
    IN [k \in keys |->
          CASE k \in IntFilters -> [number |-> the(get_int(args, k))]
            [] k \in FloatFilters -> [number |-> the(get_float(args, k))]
            [] k \in DateFilters -> [text |-> args[k].s]
            [] OTHER -> [flag |-> lower(args[k].s) \in {"true", "1", "yes"}]]

(* GET /api/trips *)
get_trips ==
    /\ request = NoRequest
    /\ \E args \in TripsArgs, fault \in Faults_trips, total_count \in Totals :
          LET page_arg == int(get(args, "page", IntText(1)))
              limit_arg == int(get(args, "limit", IntText(100)))
          IN /\ Admitted(fault)
             /\ request' = [endpoint |-> "/api/trips", args |-> args]
             /\ IF page_arg.raised \/ limit_arg.raised
                THEN /\ response' = jsonify(400, [success |-> FALSE,
                                                  error |-> "Invalid parameter value",
                                                  message |-> "str(e)"])
                     /\ sql' = NoQuery
                     /\ UNCHANGED connections
                ELSE LET page == Max(1, page_arg.val)
                         rows == Min(1000, Max(1, limit_arg.val))
                         offset == (page - 1) * rows
                         applied == filters_applied(args)
                     IN /\ connections' = try_block(connections, fault)
                        /\ IF fault # "none"
                           THEN /\ response' = jsonify(500, [success |-> FALSE,
                                                             error |-> "Failed to retrieve trips",
                                                             message |-> "str(e)"])
                                /\ sql' = NoQuery
                           ELSE /\ sql' = [executed |-> TRUE, where |-> DOMAIN applied,
                                           limit |-> rows, offset |-> offset]
                                /\ response' =
                                     jsonify(200,
                                         [success |-> TRUE,
                                          trips |-> Max(0, Min(rows, total_count - offset)),
                                          pagination |->
                                              [page |-> page, limit |-> rows,
                                               total |-> total_count,
                                               pages |-> (total_count + rows - 1) \div rows],
                                          filters_applied |-> applied])
    /\ UNCHANGED <<pipeline_vars, loader_vars>>

(* GET /api/trips/<trip_id> *)
get_trip_by_id ==
    /\ request = NoRequest
    /\ \E fault \in Faults_query, trip \in BOOLEAN :
          /\ Admitted(fault)
          /\ request' = [endpoint |-> "/api/trips/<trip_id>", fault |-> fault]
          /\ connections' = try_block(connections, fault)
          /\ response' =
               IF fault # "none"
               THEN jsonify(500, [success |-> FALSE, error |-> "Failed to retrieve trip",
                                  message |-> "str(e)"])
               ELSE IF trip
               THEN jsonify(200, [success |-> TRUE, trip |-> "trip"])
               ELSE jsonify(404, [success |-> FALSE, error |-> "Trip not found",
                                  trip_id |-> "trip_id"])
    /\ UNCHANGED <<sql, pipeline_vars, loader_vars>>

(* the views that run one fixed query: the result under its key, or 500 *)
query_view(endpoint, failure) ==
    /\ request = NoRequest
    /\ \E fault \in Faults_query :
          /\ Admitted(fault)
          /\ request' = [endpoint |-> endpoint, fault |-> fault]
          /\ connections' = try_block(connections, fault)
          /\ response' =
               IF fault = "none"
               THEN jsonify(200, [success |-> TRUE, data |-> "rows"])
               ELSE jsonify(500, [success |-> FALSE, error |-> failure, message |-> "str(e)"])
    /\ UNCHANGED <<sql, pipeline_vars, loader_vars>>

get_overview_statistics ==
    query_view("/api/statistics/overview", "Failed to retrieve statistics")
get_hourly_statistics ==
    query_view("/api/statistics/by-hour", "Failed to retrieve hourly statistics")
get_daily_statistics ==
    query_view("/api/statistics/by-day-of-week", "Failed to retrieve daily statistics")
get_rush_hour_analysis ==
    query_view("/api/statistics/rush-hour-analysis", "Failed to retrieve rush hour analysis")
get_weekend_analysis ==
    query_view("/api/statistics/weekend-analysis", "Failed to retrieve weekend analysis")
get_vendor_comparison ==
    query_view("/api/vendors/comparison", "Failed to retrieve vendor comparison")

(* the views with a limit parameter: int() is inside the try, and ValueError is *)
(* an Exception, so a limit that is no number is answered 500                   *)
limited_view(endpoint, cap, failure) ==
    /\ request = NoRequest
    /\ \E text \in LimitTexts, fault \in Faults_query, found \in 0..MaxTotal :
          LET limit_arg == int(IF text = Absent THEN IntText(20) ELSE text)
          IN /\ Admitted(fault)
             /\ request' = [endpoint |-> endpoint, limit |-> text]
             /\ connections' = IF limit_arg.raised THEN connections
                                ELSE try_block(connections, fault)
             /\ response' =
                  IF limit_arg.raised \/ fault # "none"
                  THEN jsonify(500, [success |-> FALSE, error |-> failure,
                                     message |-> "str(e)"])
                  ELSE jsonify(200, [success |-> TRUE, data |-> "rows",
                                     count |-> Min(found, Min(cap, Max(1, limit_arg.val)))])
    /\ UNCHANGED <<sql, pipeline_vars, loader_vars>>

get_popular_pickups ==
    limited_view("/api/locations/popular-pickups", 100, "Failed to retrieve popular pickups")
get_popular_dropoffs ==
    limited_view("/api/locations/popular-dropoffs", 100, "Failed to retrieve popular dropoffs")
get_popular_routes ==
    limited_view("/api/locations/routes", 50, "Failed to retrieve popular routes")

(* a URL no route matches: Flask raises NotFound, the 404 handler answers *)
not_found ==
    /\ request = NoRequest
    /\ request' = [endpoint |-> "unknown"]
    /\ response' = jsonify(404, [success |-> FALSE, error |-> "Endpoint not found",
                                 message |-> "request.path"])
    /\ UNCHANGED <<sql, connections, pipeline_vars, loader_vars>>

(* the response is sent and the server waits for the next request *)
send_response ==
    /\ request # NoRequest
    /\ request' = NoRequest
    /\ sql' = NoQuery
    /\ response' = NoResponse
    /\ UNCHANGED <<connections, pipeline_vars, loader_vars>>

(* no cleaning run is in progress *)
PipelineIdle ==
    /\ input_file = Unreadable
    /\ argsort_ties = "input_order"
    /\ pc = "load_data"
    /\ df = NoDf
    /\ excluded_records = <<>>
    /\ cleaning_stats = EmptyDict
    /\ cleaned_csv = NoFile
    /\ excluded_json = NoFile
    /\ report_json = NoFile
    /\ runs = 1
    /\ prev_run = [completed |-> FALSE, log_len |-> 0]

InitApi ==
    /\ PipelineIdle
    /\ ApiIdle
    /\ LoaderIdle

NextApi ==
    \/ health_check
    \/ get_trips
    \/ get_trip_by_id
    \/ get_overview_statistics
    \/ get_hourly_statistics
    \/ get_daily_statistics
    \/ get_rush_hour_analysis
    \/ get_weekend_analysis
    \/ get_popular_pickups
    \/ get_popular_dropoffs
    \/ get_popular_routes
    \/ get_vendor_comparison
    \/ not_found
    \/ send_response

SpecApi == InitApi /\ [][NextApi]_vars

(* ------------------------------------------------------------- batch loader *)
(* scripts/load_data.py. A cell of the CSV is a text: besides the texts above,  *)
(* a coordinate (val in units of 1e-8 degree), a datetime in the format          *)
(* '%Y-%m-%d %H:%M:%S', and the same datetime written without zero padding.      *)
CoordText(v) == [kind |-> "coord", val |-> v]
DateText(t) == [kind |-> "datetime", val |-> t]
UnpaddedDateText(t) == [kind |-> "datetime_unpadded", val |-> t]

(* round(float(value), 7), in units of 1e-7 degree; None for '', and for a text *)
(* float() raises ValueError on                                                  *)
round_coord(value) ==
    IF value.kind # "coord" THEN None
    ELSE LET q == value.val \div 10
             r == value.val % 10
         IN Some(IF r > 5 \/ (r = 5 /\ q % 2 = 1) THEN q + 1 ELSE q)

(* datetime.strptime(value, '%Y-%m-%d %H:%M:%S'): padding is optional *)
parse_datetime(value) ==
    IF value.kind \in {"datetime", "datetime_unpadded"} THEN Value(value.val) ELSE ValueError

(* dt.strftime('%Y-%m-%d %H:%M:%S') *)
strftime(t) == DateText(t)

(* int(float(text)): the fraction is cut off *)
int_float(text) ==
    IF float(text).raised THEN ValueError
    ELSE LET tenths == float(text).val
         IN Value(IF tenths >= 0 THEN tenths \div 10 ELSE 0 - ((0 - tenths) \div 10))

(* (row.get('store_and_fwd_flag') or 'N')[:1] *)
store_flag(text) ==
    CASE text = "" -> "N"
      [] text = "Yes" -> "Y"
      [] OTHER -> text

(* lines 96-142: the parameters of a row, None when the row is skipped *)
validated(row) ==
    LET vendor_id == IF row.vendor_id = Absent \/ int(row.vendor_id).raised THEN None
                     ELSE Some(int(row.vendor_id).val)
        passenger_count == IF row.passenger_count = Absent \/ int(row.passenger_count).raised
                           THEN 1 ELSE int(row.passenger_count).val
        trip_duration == IF row.trip_duration = Absent \/ int_float(row.trip_duration).raised
                         THEN None ELSE Some(int_float(row.trip_duration).val)
        pickup_lon == round_coord(row.pickup_longitude)
        pickup_lat == round_coord(row.pickup_latitude)
        dropoff_lon == round_coord(row.dropoff_longitude)
        dropoff_lat == round_coord(row.dropoff_latitude)
    IN IF row.id = "" THEN None
       ELSE IF vendor_id = None THEN None
       ELSE IF row.pickup_datetime = Absent \/ row.dropoff_datetime = Absent THEN None
       ELSE IF parse_datetime(row.pickup_datetime).raised
               \/ parse_datetime(row.dropoff_datetime).raised THEN None
       ELSE IF trip_duration = None THEN None
       ELSE IF the(trip_duration) <= 0 THEN None
       ELSE IF None \in {pickup_lon, pickup_lat, dropoff_lon, dropoff_lat} THEN None
       ELSE Some([trip_id |-> row.id,
                  vendor_id |-> the(vendor_id),
                  pickup_time |-> strftime(parse_datetime(row.pickup_datetime).val),
                  dropoff_time |-> strftime(parse_datetime(row.dropoff_datetime).val),
                  pickup |-> [longitude |-> the(pickup_lon), latitude |-> the(pickup_lat)],
                  dropoff |-> [longitude |-> the(dropoff_lon), latitude |-> the(dropoff_lat)],
                  passenger_count |-> passenger_count,
                  store_and_fwd_flag |-> store_flag(row.store_and_fwd_flag),
                  trip_duration |-> the(trip_duration)])

(* INSERT IGNORE INTO vendors *)
ensure_vendor(tables, vendor_id) ==
    [tables EXCEPT !.vendors = @ \cup {vendor_id}]

(* SELECT location_id ... WHERE longitude = and latitude =, else INSERT and      *)
(* cursor.lastrowid: [tables, auto_increment, location_id]                       *)
get_or_create_location(tables, auto_increment, at) ==
    LET rows == { l \in tables.locations :
                    l.longitude = at.longitude /\ l.latitude = at.latitude }
    IN IF rows # {}
       THEN [tables |-> tables, auto_increment |-> auto_increment,
             location_id |-> (CHOOSE l \in rows : TRUE).location_id]
       ELSE [tables |-> [tables EXCEPT !.locations =
                            @ \cup {[location_id |-> auto_increment,
                                     longitude |-> at.longitude,
                                     latitude |-> at.latitude]}],
             auto_increment |-> auto_increment + 1,
             location_id |-> auto_increment]

(* the tuple appended to batch_params *)
trip_params(v, pickup_loc_id, dropoff_loc_id) ==
    [trip_id |-> v.trip_id, vendor_id |-> v.vendor_id,
     pickup_time |-> v.pickup_time, dropoff_time |-> v.dropoff_time,
     pickup_location_id |-> pickup_loc_id, dropoff_location_id |-> dropoff_loc_id,
     passenger_count |-> v.passenger_count, store_and_fwd_flag |-> v.store_and_fwd_flag,
     trip_duration |-> v.trip_duration]

(* INSERT INTO trips ... ON DUPLICATE KEY UPDATE, for the first n tuples *)
RECURSIVE upsert(_, _, _)
upsert(trips, params, n) ==
    IF n = 0 THEN trips
    ELSE LET done == upsert(trips, params, n - 1)
         IN (params[n].trip_id :> params[n]) @@ done

executemany(tables, params, n) ==
    [tables EXCEPT !.trips = upsert(@, params, n)]

(* mutant of execute: the connection commits every statement *)
execute_autocommit(db, tables, auto_increment) ==
    [committed |-> tables, view |-> tables, auto_increment |-> auto_increment]

(* a statement on a connection opened with autocommit=False changes what the    *)
(* open transaction sees                                                         *)
execute(db, tables, auto_increment) ==
    [db EXCEPT !.view = tables, !.auto_increment = auto_increment]

(* conn.commit() *)
commit(db) == [db EXCEPT !.committed = db.view]

(* conn.rollback(); the AUTO_INCREMENT counter is not part of the transaction *)
rollback(db) == [db EXCEPT !.view = db.committed]

(* the calls of an iteration that can raise *)
Faults == {"none", "ensure_vendor", "pickup_location", "dropoff_location",
           "executemany", "commit"}

(* lines 162-184 and 187-208: executemany and commit of a batch; the statement  *)
(* that raises has inserted the first n tuples                                   *)
flush(db, params, stage, fault, n) ==
    IF fault = "executemany"
    THEN [database |-> execute(db, executemany(db.view, params, n), db.auto_increment),
          error |-> "executemany", committed |-> <<>>]
    ELSE IF fault = "commit"
    THEN [database |-> execute(db, executemany(db.view, params, Len(params)),
                               db.auto_increment),
          error |-> "commit", committed |-> <<>>]
    ELSE [database |-> commit(execute(db, executemany(db.view, params, Len(params)),
                                      db.auto_increment)),
          error |-> "none", committed |-> <<[stage |-> stage, params |-> params]>>]

(* the file is missing: sys.exit(1); else get_db_connection, which can raise     *)
(* before the try                                                                *)
load_data_start ==
    /\ line = "start"
    /\ IF ~csv_file.isfile
       THEN /\ line' = "exit"
            /\ UNCHANGED <<conn, error>>
       ELSE \E connected \in BOOLEAN :
               IF connected
               THEN /\ conn' = "open"
                    /\ line' = "for"
                    /\ UNCHANGED error
               ELSE /\ error' = "connect"
                    /\ line' = "raised"
                    /\ UNCHANGED conn
    /\ inserted_trips' = 0
    /\ total_seen' = 0
    /\ batch_params' = <<>>
    /\ UNCHANGED <<csv_file, batch_size, limit, database, commits, pipeline_vars, api_vars>>

(* one pass of the for loop, lines 91-184 *)
for_row ==
    /\ line = "for"
    /\ IF total_seen = Len(csv_file.rows)
       THEN /\ line' = "final"
            /\ UNCHANGED <<total_seen, database, batch_params, inserted_trips, error, commits>>
       ELSE IF limit # None /\ total_seen + 1 > the(limit)
       THEN /\ line' = "final"
            /\ total_seen' = total_seen + 1
            /\ UNCHANGED <<database, batch_params, inserted_trips, error, commits>>
       ELSE \E row \in {validated(csv_file.rows[total_seen + 1])} :
            /\ total_seen' = total_seen + 1
            /\ IF row = None
               THEN UNCHANGED <<line, database, batch_params, inserted_trips, error, commits>>
               ELSE \E fault \in Faults :
                    \E t1 \in {ensure_vendor(database.view, the(row).vendor_id)} :
                    \E g1 \in {get_or_create_location(t1, database.auto_increment,
                                                      the(row).pickup)} :
                    \E g2 \in {get_or_create_location(g1.tables, g1.auto_increment,
                                                      the(row).dropoff)} :
                    \E params \in {Append(batch_params,
                                          trip_params(the(row), g1.location_id,
                                                      g2.location_id))} :
                       IF fault = "ensure_vendor"
                       THEN /\ error' = fault
                            /\ line' = "except"
                            /\ UNCHANGED <<database, batch_params, inserted_trips, commits>>
                       ELSE IF fault = "pickup_location"
                       THEN /\ database' = execute(database, t1, database.auto_increment)
                            /\ error' = fault
                            /\ line' = "except"
                            /\ UNCHANGED <<batch_params, inserted_trips, commits>>
                       ELSE IF fault = "dropoff_location"
                       THEN /\ database' = execute(database, g1.tables, g1.auto_increment)
                            /\ error' = fault
                            /\ line' = "except"
                            /\ UNCHANGED <<batch_params, inserted_trips, commits>>
                       ELSE IF Len(params) < batch_size
                       THEN /\ fault = "none"
                            /\ database' = execute(database, g2.tables, g2.auto_increment)
                            /\ batch_params' = params
                            /\ UNCHANGED <<line, inserted_trips, error, commits>>
                       ELSE \E n \in 0..(Len(params) - 1) :
                            \E f \in {flush(execute(database, g2.tables, g2.auto_increment),
                                            params, "for", fault, n)} :
                               /\ database' = f.database
                               /\ error' = f.error
                               /\ commits' = commits \o f.committed
                               /\ IF f.error = "none"
                                  THEN /\ inserted_trips' = inserted_trips + Len(params)
                                       /\ batch_params' = <<>>
                                       /\ UNCHANGED line
                                  ELSE /\ line' = "except"
                                       /\ batch_params' = params
                                       /\ UNCHANGED inserted_trips
    /\ UNCHANGED <<csv_file, batch_size, limit, conn, pipeline_vars, api_vars>>

(* lines 186-210: the rest of the rows, when there is one *)
final_batch ==
    /\ line = "final"
    /\ IF batch_params = <<>>
       THEN /\ line' = "finally"
            /\ UNCHANGED <<database, inserted_trips, error, commits>>
       ELSE \E fault \in {"none", "executemany", "commit"} :
            \E n \in 0..(Len(batch_params) - 1) :
            \E f \in {flush(database, batch_params, "final", fault, n)} :
               /\ database' = f.database
               /\ error' = f.error
               /\ commits' = commits \o f.committed
               /\ IF f.error = "none"
                  THEN /\ inserted_trips' = inserted_trips + Len(batch_params)
                       /\ line' = "finally"
                  ELSE /\ line' = "except"
                       /\ UNCHANGED inserted_trips
    /\ UNCHANGED <<csv_file, batch_size, limit, conn, total_seen, batch_params,
                   pipeline_vars, api_vars>>

(* lines 211-214: except Exception: conn.rollback(), then raise *)
except_rollback ==
    /\ line = "except"
    /\ database' = rollback(database)
    /\ line' = "finally"
    /\ UNCHANGED <<csv_file, batch_size, limit, conn, total_seen, batch_params,
                   inserted_trips, error, commits, pipeline_vars, api_vars>>

(* lines 215-216: finally: conn.close(); the server drops what the connection   *)
(* left uncommitted; the exception, when there is one, goes on to the caller     *)
finally_close ==
    /\ line = "finally"
    /\ conn' = "closed"
    /\ database' = [database EXCEPT !.view = database.committed]
    /\ line' = IF error = "none" THEN "returned" ELSE "raised"
    /\ UNCHANGED <<csv_file, batch_size, limit, total_seen, batch_params,
                   inserted_trips, error, commits, pipeline_vars, api_vars>>

(* the rows of the cleaned CSV the loader is run on *)
Lat == CoordText(0)
CsvRow == [id |-> "a", vendor_id |-> IntText(2),
           pickup_datetime |-> DateText(17), dropoff_datetime |-> DateText(77),
           passenger_count |-> IntText(1), store_and_fwd_flag |-> "N",
           trip_duration |-> IntText(60),
           pickup_longitude |-> CoordText(10), pickup_latitude |-> Lat,
           dropoff_longitude |-> CoordText(20), dropoff_latitude |-> Lat]
CsvRows ==
    { CsvRow,
      [CsvRow EXCEPT !.id = "b", !.vendor_id = IntText(1),
                     !.pickup_datetime = UnpaddedDateText(5),
                     !.passenger_count = Absent, !.store_and_fwd_flag = "Yes",
                     !.trip_duration = DecimalText(127),
                     !.pickup_longitude = CoordText(14),
                     !.dropoff_longitude = CoordText(26)],
      [CsvRow EXCEPT !.id = "c", !.vendor_id = IntText(3), !.store_and_fwd_flag = "",
                     !.pickup_longitude = CoordText(26)],
      [CsvRow EXCEPT !.id = "d", !.vendor_id = Word],
      [CsvRow EXCEPT !.id = "e", !.trip_duration = IntText(0)] }

(* the database before the run: trip a of vendor 1 from and to location 1 *)
Seeded ==
    [trips |-> ("a" :> [trip_id |-> "a", vendor_id |-> 1,
                        pickup_time |-> DateText(17), dropoff_time |-> DateText(117),
                        pickup_location_id |-> 1, dropoff_location_id |-> 1,
                        passenger_count |-> 2, store_and_fwd_flag |-> "N",
                        trip_duration |-> 100]),
     vendors |-> {1},
     locations |-> {[location_id |-> 1, longitude |-> 1, latitude |-> 0]}]

InitLoader ==
    /\ PipelineIdle
    /\ ApiIdle
    /\ \/ csv_file = [isfile |-> FALSE, rows |-> <<>>]
       \/ \E n \in 0..MaxCsv : \E rows \in [1..n -> CsvRows] :
             csv_file = [isfile |-> TRUE, rows |-> rows]
    /\ batch_size \in 1..MaxBatch
    /\ limit \in {None, Some(2)}
    /\ database = [committed |-> Seeded, view |-> Seeded, auto_increment |-> 2]
    /\ conn = "none"
    /\ line = "start"
    /\ total_seen = 0
    /\ batch_params = <<>>
    /\ inserted_trips = 0
    /\ error = "none"
    /\ commits = <<>>

NextLoader ==
    \/ load_data_start
    \/ for_row
    \/ final_batch
    \/ except_rollback
    \/ finally_close

SpecLoader == InitLoader /\ [][NextLoader]_vars

(* ================================================================ claims *)
Stat(k) == cleaning_stats[k]
Counters ==
    {"original_count", "missing_values_removed", "duplicates_removed",
     "outliers_removed", "final_count"}

(* the entries this process_all call has appended to the exclusion log *)
RunLog == SubSeq(excluded_records, prev_run.log_len + 1, Len(excluded_records))

(* C1: whenever process_all completes, original_count = final_count +           *)
(* missing_values_removed + duplicates_removed + outliers_removed.              *)
C1_PartitionCompleteness ==
    pc = "done" =>
        Stat("original_count") =
            Stat("final_count") + Stat("missing_values_removed")
              + Stat("duplicates_removed") + Stat("outliers_removed")

(* a completed run in which every removing stage removed something *)
C1_Witness ==
    /\ pc = "done"
    /\ Stat("missing_values_removed") >= 1
    /\ Stat("duplicates_removed") >= 1
    /\ Stat("outliers_removed") >= 1

(* C2: remove_duplicates keeps, of the records of the working set that agree on *)
(* (pickup timestamp, dropoff timestamp, pickup longitude, pickup latitude) as  *)
(* the frame holds them, exactly the first in input order; every later one is   *)
(* appended to the exclusion log, and duplicates_removed counts the later ones. *)
KeyFields == {"pickup_datetime", "dropoff_datetime", "pickup_longitude", "pickup_latitude"}
SameKey(a, b) == \A c \in KeyFields : a[c] = b[c]
LaterOccurrences(W) ==
    {i \in 1..Len(W) : \E j \in 1..(i - 1) : SameKey(W[j].cells, W[i].cells)}

C2_DedupFirstWins ==
    [][pc = "remove_duplicates" =>
        LET W == df.rows
            later == LaterOccurrences(W)
            before == Len(excluded_records)
        IN /\ \A i \in 1..Len(W) :
                 (i \notin later) <=> (\E k \in 1..Len(df'.rows) : df'.rows[k] = W[i])
           /\ Len(df'.rows) = Len(W) - Cardinality(later)
           /\ Len(excluded_records') = before + Cardinality(later)
           /\ SubSeq(excluded_records', 1, before) = excluded_records
           /\ \A i \in later :
                 \E n \in (before + 1)..Len(excluded_records') :
                     /\ excluded_records'[n].src = W[i].src
                     /\ excluded_records'[n].cells = W[i].cells
           /\ cleaning_stats'["duplicates_removed"] = Cardinality(later)]_vars

(* remove_duplicates has excluded two later occurrences of a key whose first    *)
(* occurrence, kept, differs from one of them in another field                  *)
C2_Witness ==
    /\ pc = "handle_outliers_and_invalid_records"
    /\ Cardinality({n \in DOMAIN RunLog : RunLog[n].stage = "duplicate"}) >= 2
    /\ \E n \in DOMAIN RunLog : \E k \in 1..Len(df.rows) :
          /\ RunLog[n].stage = "duplicate"
          /\ SameKey(RunLog[n].cells, df.rows[k].cells)
          /\ df.rows[k].src < RunLog[n].src
          /\ df.rows[k].cells["id"] # RunLog[n].cells["id"]

(* C3: every record of the cleaned dataset has both latitudes in [40.5, 41.0],  *)
(* both longitudes in [-74.3, -73.7], and no coordinate equal to 0.             *)
InBox(lat, lon) ==
    /\ Num(40, 50000) <= lat /\ lat <= Num(41, 0)
    /\ 0 - Num(74, 30000) <= lon /\ lon <= 0 - Num(73, 70000)
    /\ lat # 0 /\ lon # 0

C3_BoundingBox ==
    cleaned_csv.written =>
        \A k \in 1..Len(cleaned_csv.rows) :
            /\ InBox(cleaned_csv.rows[k]["pickup_latitude"],
                     cleaned_csv.rows[k]["pickup_longitude"])
            /\ InBox(cleaned_csv.rows[k]["dropoff_latitude"],
                     cleaned_csv.rows[k]["dropoff_longitude"])

(* a record read with latitude 40.99996 is in the cleaned dataset with the      *)
(* latitude rounded onto the edge 41.0                                          *)
C3_Witness ==
    /\ pc = "done"
    /\ \E k \in 1..Len(df.rows) :
          /\ input_file.rows[df.rows[k].src]["pickup_latitude"] = Num(40, 99996)
          /\ df.rows[k].cells["pickup_latitude"] = Num(41, 0)

(* C4: every record of the cleaned dataset has trip_duration_seconds equal to   *)
(* dropoff timestamp - pickup timestamp, with 0 < trip_duration_seconds <= 86400 *)
C4_DurationInvariant ==
    cleaned_csv.written =>
        \A k \in 1..Len(cleaned_csv.rows) :
            LET r == cleaned_csv.rows[k] IN
            /\ r["trip_duration_seconds"]
                  = r["dropoff_datetime"].t - r["pickup_datetime"].t
            /\ 0 < r["trip_duration_seconds"]
            /\ r["trip_duration_seconds"] <= Seconds(86400)

(* C5: in every record of the cleaned dataset a present trip distance is in     *)
(* (0, 100], a present fare is in [0, 500] and the passenger count, as cast to  *)
(* an integer, is in 1..7.                                                      *)
C5_OptionalRanges ==
    cleaned_csv.written =>
        \A k \in 1..Len(cleaned_csv.rows) :
            LET r == cleaned_csv.rows[k]
                present(c) == c \in cleaned_csv.columns /\ r[c] # NaN
            IN /\ present("trip_distance") =>
                     (0 < r["trip_distance"] /\ r["trip_distance"] <= Num(100, 0))
               /\ present("fare_amount") =>
                     (0 <= r["fare_amount"] /\ r["fare_amount"] <= Num(500, 0))
               /\ present("passenger_count") =>
                     (1 <= r["passenger_count"] /\ r["passenger_count"] <= 7)

(* C6: a record lacking a required field is excluded by handle_missing_values   *)
(* and by nothing else: one log entry, made there, of the record as read; it is *)
(* not in the frame afterwards; missing_values_removed counts these records;    *)
(* no record is a duplicate on account of one of them; the other two counters   *)
(* count the entries of the other two stages.                                   *)
RequiredFields ==
    {"pickup_datetime", "dropoff_datetime", "pickup_longitude", "pickup_latitude",
     "dropoff_longitude", "dropoff_latitude"}
Lacks(row) ==
    \E c \in RequiredFields :
        IF c \in TextColumns THEN row[c].fmt = FmtNull ELSE row[c] = NaN
Lacking == {i \in 1..Len(input_file.rows) : Lacks(input_file.rows[i])}
EntriesOf(stage) == {n \in DOMAIN RunLog : RunLog[n].stage = stage}
AfterMissing ==
    pc \in {"remove_duplicates", "handle_outliers_and_invalid_records",
            "create_derived_features", "normalize_and_format", "save_cleaned_data",
            "save_excluded_records", "generate_cleaning_report", "done"}

C6_MissingExcludedOnce ==
    AfterMissing =>
        /\ \A i \in Lacking :
              /\ Cardinality({n \in DOMAIN RunLog : RunLog[n].src = i}) = 1
              /\ \A n \in DOMAIN RunLog :
                    RunLog[n].src = i =>
                        (RunLog[n].stage = "missing" /\ RunLog[n].cells = input_file.rows[i])
              /\ \A k \in 1..Len(df.rows) : df.rows[k].src # i
        /\ Stat("missing_values_removed") = Cardinality(Lacking)
        /\ \A n \in EntriesOf("duplicate") :
              \E j \in 1..(RunLog[n].src - 1) :
                  /\ j \notin Lacking
                  /\ SameKey(input_file.rows[j], input_file.rows[RunLog[n].src])
        /\ pc = "done" =>
              /\ Stat("duplicates_removed") = Cardinality(EntriesOf("duplicate"))
              /\ Stat("outliers_removed") = Cardinality(EntriesOf("outlier"))

(* a completed run whose input had, before a complete record, a record with the *)
(* same key fields that lacked the dropoff latitude                              *)
C6_Witness ==
    /\ pc = "done"
    /\ \E i \in Lacking : \E k \in 1..Len(df.rows) :
          /\ i < df.rows[k].src
          /\ input_file.rows[i]["dropoff_latitude"] = NaN
          /\ SameKey(input_file.rows[i], input_file.rows[df.rows[k].src])

(* C7: when handle_missing_values returns, no record of the frame has a null    *)
(* passenger count: a record read with a null one has 1, the others have the    *)
(* value they were read with.                                                   *)
C7_PassengerImputed ==
    (pc = "remove_duplicates" /\ "passenger_count" \in df.columns) =>
        \A k \in 1..Len(df.rows) :
            LET read == input_file.rows[df.rows[k].src]["passenger_count"]
                now == df.rows[k].cells["passenger_count"]
            IN /\ now # NaN
               /\ read = NaN => now = Num(1, 0)
               /\ read # NaN => now = read

(* handle_missing_values has returned a frame with a record read with a null    *)
(* passenger count and a record read with 3                                     *)
C7_Witness ==
    /\ pc = "remove_duplicates"
    /\ "passenger_count" \in df.columns
    /\ \E k \in 1..Len(df.rows) :
          /\ input_file.rows[df.rows[k].src]["passenger_count"] = NaN
          /\ df.rows[k].cells["passenger_count"] = Num(1, 0)
    /\ \E k \in 1..Len(df.rows) :
          df.rows[k].cells["passenger_count"] = Num(3, 0)

(* C8: a second process_all on the same input writes the same cleaned dataset   *)
(* (same records, values and order) and ends with the same five counters.       *)
C8_Idempotence ==
    (pc = "done" /\ prev_run.completed) =>
        /\ cleaned_csv = prev_run.cleaned_csv
        /\ \A k \in Counters : Stat(k) = prev_run.statistics[k]

(* the second run of one cleaner object, whose log already held exclusions,     *)
(* has written a dataset of two records or more                                 *)
C8_Witness ==
    /\ pc = "done"
    /\ prev_run.completed
    /\ prev_run.log_len >= 1
    /\ Len(cleaned_csv.rows) >= 2

(* C9: the cleaned dataset is in ascending order of pickup timestamp.           *)
C9_SortedByPickup ==
    cleaned_csv.written =>
        \A k \in 1..(Len(cleaned_csv.rows) - 1) :
            cleaned_csv.rows[k]["pickup_datetime"].t
                <= cleaned_csv.rows[k + 1]["pickup_datetime"].t

(* a completed run whose sort moved a later input row before an earlier one *)
C9_Witness ==
    /\ pc = "done"
    /\ \E k \in 1..(Len(df.rows) - 1) :
          /\ df.rows[k].src > df.rows[k + 1].src
          /\ df.rows[k].cells["pickup_datetime"] < df.rows[k + 1].cells["pickup_datetime"]

(* C10: records of the cleaned dataset with the same pickup timestamp are in    *)
(* the relative order they had in the input.                                    *)
C10_SortStable ==
    pc = "done" =>
        \A k, l \in 1..Len(df.rows) :
            (k < l /\ df.rows[k].cells["pickup_datetime"] = df.rows[l].cells["pickup_datetime"])
                => df.rows[k].src < df.rows[l].src

(* C11: a row-level defect (a missing required field, an unparseable pickup or  *)
(* dropoff timestamp, an out-of-range value) never makes process_all raise: on   *)
(* a readable input that has every required column and at least one row, no      *)
(* stage fails.                                                                   *)
WellFormed ==
    /\ input_file.readable
    /\ critical_fields \subseteq input_file.columns
    /\ Len(input_file.rows) > 0

C11_RowDefectsNeverRaise == WellFormed => pc # "failed"

(* C12: when the input cannot be read or a required column is absent from its   *)
(* schema, process_all stops in load_data or handle_missing_values, and none of  *)
(* the three outputs is ever written.                                            *)
StructuralFailure ==
    \/ ~input_file.readable
    \/ ~(critical_fields \subseteq input_file.columns)

C12_StructuralFailureAborts ==
    StructuralFailure =>
        /\ pc \in {"load_data", "handle_missing_values", "failed"}
        /\ ~input_file.readable => pc \in {"load_data", "failed"}
        /\ ~cleaned_csv.written /\ ~excluded_json.written /\ ~report_json.written

(* a loaded input with rows and no dropoff_latitude column has stopped the run *)
C12_Witness ==
    /\ pc = "failed"
    /\ input_file.readable
    /\ "dropoff_latitude" \notin input_file.columns
    /\ Len(df.rows) > 0
    /\ ~cleaned_csv.written /\ ~excluded_json.written /\ ~report_json.written

(* C13: the exclusion log output holds count = the number of entries of the     *)
(* exclusion log (those of earlier process_all calls on this cleaner plus the   *)
(* records the three removing stages excluded in this run), not limited by the  *)
(* cap, and records = the first 1000 entries in the order they were appended    *)
(* (all of them when there are fewer).                                          *)
C13_ExclusionLogOutput ==
    pc \in {"generate_cleaning_report", "done"} =>
        /\ excluded_json.written
        /\ excluded_json.count = Len(excluded_records)
        /\ excluded_json.count =
              prev_run.log_len + Stat("missing_values_removed")
                + Stat("duplicates_removed") + Stat("outliers_removed")
        /\ Len(excluded_json.records) =
              (IF excluded_json.count < 1000 THEN excluded_json.count ELSE 1000)
        /\ \A n \in 1..Len(excluded_json.records) :
              excluded_json.records[n] = excluded_records[n]

(* 1001 records were excluded, the last by the validity filter: it is counted   *)
(* and is not among the 1000 records written                                    *)
C13_Witness ==
    /\ pc = "done"
    /\ excluded_json.count = 1001
    /\ Len(excluded_json.records) = 1000
    /\ excluded_records[1001].stage = "outlier"
    /\ excluded_json.records[1000].stage = "missing"

(* C14: for every input that loads, generate_cleaning_report produces the       *)
(* statistics report: a run that has set final_count does not fail, and when it *)
(* is done the report holds the five counters and retention_rate = final_count  *)
(* / original_count as a percentage to the nearest hundredth.                   *)
C14_ReportForEveryLoadedInput ==
    /\ "final_count" \in DOMAIN cleaning_stats => pc # "failed"
    /\ pc = "done" =>
          /\ report_json.written
          /\ DOMAIN report_json.statistics = Counters
          /\ report_json.statistics = cleaning_stats
          /\ LET rate == report_json.retention_rate
                 exact == Stat("final_count") * 10000 - rate * Stat("original_count")
             IN /\ 2 * exact <= Stat("original_count")
                /\ 2 * (0 - exact) <= Stat("original_count")

(* the stages of a run at which self.df holds the derived features *)
PostDerive ==
    {"normalize_and_format", "save_cleaned_data", "save_excluded_records",
     "generate_cleaning_report", "done"}

(* the row of the input that row k of the working set was loaded from *)
Loaded(k) == input_file.rows[df.rows[k].src]

(* pickup to dropoff of an input row, in ticks *)
Elapsed(row) == row["dropoff_datetime"].t - row["pickup_datetime"].t

(* distance x 1.60934 km over the duration is more than 120 km/h *)
Above120(row) == 6 * MulDiv(row["trip_distance"], 160934, Scale) > Elapsed(row)

(* C15: when the trip-distance column is present, the feature stage drops no    *)
(* record; a record whose distance x 1.60934 km over its duration in hours is   *)
(* above 120 km/h has a null speed, and every non-null speed of the cleaned     *)
(* dataset lies in [0, 120].                                                     *)
C15_SpeedClipping ==
    /\ (pc \in PostDerive /\ "trip_distance" \in df.columns) =>
          /\ Len(df.rows) = Stat("original_count") - Stat("missing_values_removed")
                             - Stat("duplicates_removed") - Stat("outliers_removed")
          /\ \A k \in 1..Len(df.rows) :
                LET d == Loaded(k)["trip_distance"]
                    v == df.rows[k].cells["trip_speed_kmh"]
                IN /\ (d # NaN /\ Above120(Loaded(k))) => v = NaN
                   /\ (d # NaN /\ ~Above120(Loaded(k))) => v # NaN
                   /\ v # NaN => (0 <= v /\ v <= Num(120, 0))
    /\ (cleaned_csv.written /\ "trip_speed_kmh" \in cleaned_csv.columns) =>
          \A k \in 1..Len(cleaned_csv.rows) :
              LET v == cleaned_csv.rows[k]["trip_speed_kmh"]
              IN v # NaN => (0 <= v /\ v <= Num(120, 0))

(* 1 mile in 1 second: the record is in the cleaned dataset, its speed is null  *)
C15_Witness ==
    /\ pc = "done"
    /\ {"trip_distance"} \subseteq cleaned_csv.columns
    /\ \E k \in 1..Len(cleaned_csv.rows) :
          /\ cleaned_csv.rows[k]["trip_distance"] = Num(1, 0)
          /\ cleaned_csv.rows[k]["trip_duration_seconds"] = Seconds(1)
          /\ cleaned_csv.rows[k]["trip_speed_kmh"] = NaN

(* C16: when the tip and fare columns are present, tip_percentage of a record   *)
(* is 0 when its fare is 0, whatever its tip, and tip / fare x 100 rounded to 2 *)
(* decimals when its fare is not 0 (tip and fare as loaded, both non-null).      *)
C16_TipPercentage ==
    (pc \in PostDerive /\ {"tip_amount", "fare_amount"} \subseteq df.columns) =>
        \A k \in 1..Len(df.rows) :
            LET tip == Loaded(k)["tip_amount"]
                fare == Loaded(k)["fare_amount"]
                v == df.rows[k].cells["tip_percentage"]
            IN /\ fare = 0 => v = 0
               /\ (fare # 0 /\ fare # NaN /\ tip # NaN) =>
                     v = MulDiv(tip, 10000, fare) * (Scale \div 100)

(* fare 0 and tip 5: the run is done and the record is in the cleaned dataset   *)
(* with tip_percentage 0                                                         *)
C16_Witness ==
    /\ pc = "done"
    /\ {"tip_amount", "fare_amount"} \subseteq cleaned_csv.columns
    /\ \E k \in 1..Len(cleaned_csv.rows) :
          /\ cleaned_csv.rows[k]["fare_amount"] = 0
          /\ cleaned_csv.rows[k]["tip_amount"] = Num(5, 0)
          /\ cleaned_csv.rows[k]["tip_percentage"] = 0
          /\ Loaded(k)["fare_amount"] = 0

(* C17: distance_category of a record is very_short when its trip distance d    *)
(* (as loaded, non-null) is below 1, short when 1 <= d < 3, medium when         *)
(* 3 <= d < 10 and long when d >= 10.                                            *)
C17_DistanceCategory ==
    (pc \in PostDerive /\ "trip_distance" \in df.columns) =>
        \A k \in 1..Len(df.rows) :
            LET d == Loaded(k)["trip_distance"]
                c == df.rows[k].cells["distance_category"]
            IN d # NaN =>
                 /\ d < Num(1, 0) => c = "very_short"
                 /\ (Num(1, 0) <= d /\ d < Num(3, 0)) => c = "short"
                 /\ (Num(3, 0) <= d /\ d < Num(10, 0)) => c = "medium"
                 /\ d >= Num(10, 0) => c = "long"

(* a record of distance exactly 1.0 is in the cleaned dataset as short *)
C17_Witness ==
    /\ pc = "done"
    /\ {"trip_distance"} \subseteq cleaned_csv.columns
    /\ \E k \in 1..Len(cleaned_csv.rows) :
          /\ Loaded(k)["trip_distance"] = Num(1, 0)
          /\ cleaned_csv.rows[k]["trip_distance"] = Num(1, 0)
          /\ cleaned_csv.rows[k]["distance_category"] = "short"

(* C18: every response of the API, of a view or of an error handler, has a      *)
(* status among 200, 400, 404 and 500 and a JSON body with a boolean field      *)
(* success; GET /api/health included.                                            *)
C18_SuccessEnvelope ==
    response # NoResponse =>
        /\ response.status \in {200, 400, 404, 500}
        /\ "success" \in DOMAIN response.body
        /\ response.body["success"] \in BOOLEAN

(* the text of a numeric parameter of GET /api/trips is no number of its type *)
InvalidValue(args, k) ==
    /\ args[k] # Absent
    /\ IF k \in FloatFilters THEN args[k].kind \notin {"int", "decimal"}
       ELSE args[k].kind # "int"

(* C19: GET /api/trips answers 400 with success = false when page, limit,       *)
(* vendor_id, min_distance, max_distance, min_duration or max_duration is not   *)
(* numeric; and a 200 answer has page >= 1, limit in [1, 1000], the query's      *)
(* offset = (page - 1) x limit and pages = ceil(total / limit).                   *)
C19_TripsParameters ==
    (request.endpoint = "/api/trips" /\ response # NoResponse) =>
        /\ (\E k \in NumericParameters : InvalidValue(request.args, k)) =>
              /\ response.status = 400
              /\ response.body["success"] = FALSE
        /\ response.status = 200 =>
              LET p == response.body["pagination"]
              IN /\ p.page >= 1
                 /\ p.limit >= 1 /\ p.limit <= 1000
                 /\ sql.executed /\ sql.limit = p.limit
                 /\ sql.offset = (p.page - 1) * p.limit
                 /\ p.pages * p.limit >= p.total
                 /\ (p.pages - 1) * p.limit < p.total

(* the tuples of the committed batches, in the order they were committed *)
RECURSIVE Flatten(_)
Flatten(batches) ==
    IF batches = <<>> THEN <<>>
    ELSE batches[1].params \o Flatten(Tail(batches))

(* the rows load_data reads before the file or the limit ends, that it keeps *)
Loadable ==
    LET last == IF limit = None THEN Len(csv_file.rows)
                ELSE Min(the(limit), Len(csv_file.rows))
    IN { i \in 1..last : validated(csv_file.rows[i]) # None }

(* C20: trips are committed in batches of batch_size tuples, the last one of a  *)
(* run possibly smaller; what the database holds is what it held before the run *)
(* with the committed batches upserted and the vendors and locations of their    *)
(* tuples, nothing else; after an error the open transaction is rolled back      *)
(* before the connection is closed, and the error reaches the caller with the    *)
(* connection closed; a run that returns has committed every row it kept.        *)
C20_BatchTransactions ==
    LET done == Flatten(commits)
    IN /\ \A i \in 1..Len(commits) :
             /\ Len(commits[i].params) >= 1
             /\ Len(commits[i].params) <= batch_size
             /\ commits[i].stage = "for" => Len(commits[i].params) = batch_size
             /\ commits[i].stage = "final" =>
                   (i = Len(commits) /\ line \in {"finally", "returned"})
       /\ database.committed.trips = upsert(Seeded.trips, done, Len(done))
       /\ database.committed.vendors =
             Seeded.vendors \cup { done[i].vendor_id : i \in 1..Len(done) }
       /\ { l.location_id : l \in database.committed.locations } =
             { l.location_id : l \in Seeded.locations }
             \cup { done[i].pickup_location_id : i \in 1..Len(done) }
             \cup { done[i].dropoff_location_id : i \in 1..Len(done) }
       /\ (line = "finally" /\ error # "none") => database.view = database.committed
       /\ line = "raised" =>
             /\ error # "none"
             /\ error # "connect" => conn = "closed"
             /\ database.view = database.committed
       /\ line = "returned" =>
             /\ error = "none"
             /\ conn = "closed"
             /\ database.view = database.committed
             /\ Len(done) = Cardinality(Loadable)
             /\ inserted_trips = Len(done)

(* batch a is committed, then the commit of batch c raises: the error reaches   *)
(* the caller, the connection is closed, trip a is in the database, and trip c, *)
(* its vendor 3 and its location are not                                        *)
C20_Witness ==
    /\ line = "raised"
    /\ conn = "closed"
    /\ error = "commit"
    /\ Len(commits) = 1
    /\ commits[1].params[1].trip_id = "a"
    /\ database.committed.trips["a"].vendor_id = 2
    /\ batch_params # <<>>
    /\ batch_params[1].trip_id = "c"
    /\ "c" \notin DOMAIN database.committed.trips
    /\ 3 \notin database.committed.vendors
    /\ batch_params[1].pickup_location_id \notin
          { l.location_id : l \in database.committed.locations }

(* a value is present and outside [low, high] *)
Outside(v, low, high) == v # NaN /\ (v < low \/ v > high)

(* one of the listed conditions holds for a record of the working set, the      *)
(* conditions on an optional field counting only when its column is there       *)
Violates(columns, c) ==
    LET duration == c["dropoff_datetime"].t - c["pickup_datetime"].t
    IN \/ duration <= 0 \/ duration > Seconds(86400)
       \/ Outside(c["pickup_latitude"], Num(40, 50000), Num(41, 0))
       \/ Outside(c["dropoff_latitude"], Num(40, 50000), Num(41, 0))
       \/ Outside(c["pickup_longitude"], 0 - Num(74, 30000), 0 - Num(73, 70000))
       \/ Outside(c["dropoff_longitude"], 0 - Num(74, 30000), 0 - Num(73, 70000))
       \/ 0 \in {c["pickup_latitude"], c["dropoff_latitude"],
                 c["pickup_longitude"], c["dropoff_longitude"]}
       \/ /\ "trip_distance" \in columns
          /\ c["trip_distance"] # NaN
          /\ (c["trip_distance"] <= 0 \/ c["trip_distance"] > Num(100, 0))
       \/ "fare_amount" \in columns /\ Outside(c["fare_amount"], 0, Num(500, 0))
       \/ /\ "passenger_count" \in columns
          /\ c["passenger_count"] # NaN
          /\ (c["passenger_count"] <= 0 \/ c["passenger_count"] > Num(7, 0))

(* C21: a run of handle_outliers_and_invalid_records that returns has excluded  *)
(* exactly the records of the working set for which a listed condition holds,   *)
(* optional-field conditions applying only when the column exists: those are    *)
(* appended to the exclusion log, the others stay in the working set, and       *)
(* outliers_removed is the number of records excluded.                           *)
C21_OutlierIff ==
    [][(pc = "handle_outliers_and_invalid_records" /\ pc' = "create_derived_features") =>
        LET W == df.rows
            bad == {i \in 1..Len(W) : Violates(df.columns, W[i].cells)}
            before == Len(excluded_records)
        IN /\ \A i \in 1..Len(W) :
                 (i \notin bad) <=> (\E k \in 1..Len(df'.rows) : df'.rows[k].src = W[i].src)
           /\ \A i \in 1..Len(W) :
                 (i \in bad) <=>
                    (\E n \in (before + 1)..Len(excluded_records') :
                         /\ excluded_records'[n].src = W[i].src
                         /\ excluded_records'[n].stage = "outlier")
           /\ Len(df'.rows) = Len(W) - Cardinality(bad)
           /\ Len(excluded_records') = before + Cardinality(bad)
           /\ cleaning_stats'["outliers_removed"] = Cardinality(bad)]_vars

(* the stage has excluded a record for its fare of 500.00001 alone and has kept *)
(* a record whose fare is 0                                                      *)
C21_Witness ==
    /\ pc = "create_derived_features"
    /\ "fare_amount" \in df.columns
    /\ Stat("outliers_removed") = 1
    /\ \E n \in DOMAIN RunLog :
          /\ RunLog[n].stage = "outlier"
          /\ RunLog[n].cells["fare_amount"] = Num(500, 1)
    /\ \E k \in 1..Len(df.rows) : df.rows[k].cells["fare_amount"] = 0

(* the chain of process_all *)
Chain ==
    <<"load_data", "handle_missing_values", "remove_duplicates",
      "handle_outliers_and_invalid_records", "create_derived_features",
      "normalize_and_format", "save_cleaned_data", "save_excluded_records",
      "generate_cleaning_report", "done">>
Position(stage) == CHOOSE n \in 1..Len(Chain) : Chain[n] = stage

(* the order of the groups of the exclusion log *)
Rank(stage) == CASE stage = "missing" -> 1 [] stage = "duplicate" -> 2 [] OTHER -> 3

(* the input rows the working set holds *)
Survivors(frame) == { frame.rows[k].src : k \in 1..Len(frame.rows) }

(* what this run has logged is grouped missing, duplicate, outlier, each group  *)
(* in input order                                                               *)
LogGrouped ==
    \A m, n \in DOMAIN RunLog :
        m < n =>
            /\ Rank(RunLog[m].stage) <= Rank(RunLog[n].stage)
            /\ RunLog[m].stage = RunLog[n].stage => RunLog[m].src < RunLog[n].src

(* C22: every step of process_all is the stage that follows the previous one in *)
(* the chain (or the failure of that stage); a stage after the load works on    *)
(* records of the working set it received and logs only such records; and what  *)
(* a run has logged is all its missing-value exclusions, then all its duplicate *)
(* exclusions, then all its outlier exclusions, each group in input order.      *)
C22_StageOrder ==
    [][/\ \/ pc = "done" /\ pc' = "load_data"
          \/ pc \in {Chain[n] : n \in 1..(Len(Chain) - 1)}
             /\ pc' \in {Chain[Position(pc) + 1], "failed"}
       /\ pc \notin {"load_data", "done"} =>
             /\ Survivors(df') \subseteq Survivors(df)
             /\ \A n \in (Len(excluded_records) + 1)..Len(excluded_records') :
                   excluded_records'[n].src \in Survivors(df) \ Survivors(df')
       /\ pc # "done" => LogGrouped']_vars

(* the input held an outlier, then a duplicate of it, then a record lacking a   *)
(* field; the log of the completed run lists them in the opposite order         *)
C22_Witness ==
    /\ pc = "done"
    /\ Len(RunLog) = 3
    /\ RunLog[1].stage = "missing" /\ RunLog[1].src = 3
    /\ RunLog[2].stage = "duplicate" /\ RunLog[2].src = 2
    /\ RunLog[3].stage = "outlier" /\ RunLog[3].src = 1

(* the counter a stage writes *)
OwnCounter(stage) ==
    CASE stage = "load_data" -> {"original_count"}
      [] stage = "handle_missing_values" -> {"missing_values_removed"}
      [] stage = "remove_duplicates" -> {"duplicates_removed"}
      [] stage = "handle_outliers_and_invalid_records" -> {"outliers_removed"}
      [] stage = "normalize_and_format" -> {"final_count"}
      [] OTHER -> {}

(* C23: create_derived_features and normalize_and_format leave the records of   *)
(* the working set and the exclusion log as they are; a stage changes no        *)
(* counter but its own, so the counters of earlier stages keep their values;    *)
(* and final_count is the number of records the validity filter left.           *)
C23_FrameOfLateStages ==
    [][/\ pc \in {"create_derived_features", "normalize_and_format"} =>
             /\ Len(df'.rows) = Len(df.rows)
             /\ Survivors(df') = Survivors(df)
             /\ excluded_records' = excluded_records
       /\ pc # "done" =>
             \A k \in DOMAIN cleaning_stats \ OwnCounter(pc) :
                 /\ k \in DOMAIN cleaning_stats'
                 /\ cleaning_stats'[k] = cleaning_stats[k]
       /\ pc = "handle_outliers_and_invalid_records" /\ pc' = "create_derived_features" =>
             Len(df'.rows) = Len(df.rows) - cleaning_stats'["outliers_removed"]
       /\ pc = "normalize_and_format" =>
             cleaning_stats'["final_count"] = Len(df.rows)]_vars

(* a completed run: of three records one lacked a field, one was an outlier and *)
(* one is in the cleaned dataset, and the counters say so                       *)
C23_Witness ==
    /\ pc = "done"
    /\ Stat("original_count") = 3
    /\ Stat("missing_values_removed") = 1
    /\ Stat("duplicates_removed") = 0
    /\ Stat("outliers_removed") = 1
    /\ Stat("final_count") = 1
    /\ Len(cleaned_csv.rows) = 1
    /\ Len(RunLog) = 2

(* the entries this run has logged for input record i *)
LoggedAs(i) == {n \in DOMAIN RunLog : RunLog[n].src = i}

(* C24: when process_all has completed, every input record is either in the     *)
(* cleaned dataset or logged once by this run, never both and never neither;    *)
(* and the run has logged missing_values_removed + duplicates_removed +         *)
(* outliers_removed = original_count - final_count entries.                      *)
C24_ExactlyOnePlace ==
    pc = "done" =>
        /\ \A i \in 1..Len(input_file.rows) :
              \/ i \in Survivors(df) /\ LoggedAs(i) = {}
              \/ i \notin Survivors(df) /\ Cardinality(LoggedAs(i)) = 1
        /\ Len(cleaned_csv.rows) = Cardinality(Survivors(df))
        /\ Len(cleaned_csv.rows) + Len(RunLog) = Len(input_file.rows)
        /\ Len(RunLog) = Stat("missing_values_removed") + Stat("duplicates_removed")
                           + Stat("outliers_removed")
        /\ Len(RunLog) = Stat("original_count") - Stat("final_count")

(* a completed run that logged a duplicate and a record lacking a field and     *)
(* wrote the third record to the cleaned dataset                                *)
C24_Witness ==
    /\ pc = "done"
    /\ Len(input_file.rows) = 3
    /\ Len(cleaned_csv.rows) = 1
    /\ \E m, n \in DOMAIN RunLog :
          /\ RunLog[m].stage = "missing"
          /\ RunLog[n].stage = "duplicate"
          /\ \E k \in 1..Len(df.rows) :
                SameKey(input_file.rows[df.rows[k].src], input_file.rows[RunLog[n].src])

(* C25: no two records of the cleaned dataset, as written, have the same        *)
(* (pickup timestamp, dropoff timestamp, pickup longitude, pickup latitude).    *)
C25_UniqueKeysAsWritten ==
    cleaned_csv.written =>
        \A j, k \in 1..Len(cleaned_csv.rows) :
            j < k => ~SameKey(cleaned_csv.rows[j], cleaned_csv.rows[k])

(* input record i has its six required fields, timestamps that parse, and       *)
(* violates no validity condition                                               *)
ValidInput(i) ==
    LET r == input_file.rows[i]
    IN /\ \A c \in critical_fields : ~isnull(c, r[c])
       /\ \A c \in TextColumns : ~Unparseable(r[c])
       /\ ~Violates(input_file.columns, r)

(* C26: when process_all has completed, the key of every valid input record is  *)
(* the key of a record of the cleaned dataset.                                  *)
C26_ValidKeyKept ==
    pc = "done" =>
        \A i \in 1..Len(input_file.rows) :
            ValidInput(i) =>
                \E k \in 1..Len(df.rows) :
                    SameKey(input_file.rows[df.rows[k].src], input_file.rows[i])

(* C27: when a run of process_all has ended, by returning or by raising, the    *)
(* cleaned dataset, the exclusion log and the statistics report are all three   *)
(* written or none of them is.                                                  *)
C27_AllArtifactsOrNone ==
    pc \in {"done", "failed"} =>
        /\ cleaned_csv.written = excluded_json.written
        /\ excluded_json.written = report_json.written

(* C28: no connection that a view opened is open once the view has returned:    *)
(* whatever requests were served and wherever they failed, the views have       *)
(* closed every connection they opened.                                         *)
C28_ConnectionsClosed ==
    connections = 0

====
